---- MODULE Spec2Model ----
(***************************************************************************)
(* Model of the message engine of OxidizeBot (server/src/irc.rs): the     *)
(* rate-limited Sender, the per-message dispatch pipeline of               *)
(* MessageHandler (alias -> command routing -> moderation -> deletion),    *)
(* the transport stream consumer and the periodic loops.                   *)
(*                                                                         *)
(* Strings are TLA+ strings; a character is a string of length one.        *)
(***************************************************************************)
EXTENDS Integers, Sequences, FiniteSets, TLC

None == "<none>"

\* ------------------------------------------------------------------------
\* Characters and strings
\* ------------------------------------------------------------------------

CharAt(s, i) == SubSeq(s, i, i)

DropFirst(s, n) == SubSeq(s, n + 1, Len(s))

IsWhitespace(c) == c \in {" ", "\t"}

StartsWith(s, c) == Len(s) >= 1 /\ CharAt(s, 1) = c

\* index of the first whitespace character of s, 0 when there is none
RECURSIVE FindWhitespace(_, _)
FindWhitespace(s, i) ==
    IF i > Len(s) THEN 0
    ELSE IF IsWhitespace(CharAt(s, i)) THEN i
    ELSE FindWhitespace(s, i + 1)

RECURSIVE TrimStart(_)
TrimStart(s) ==
    IF Len(s) >= 1 /\ IsWhitespace(CharAt(s, 1)) THEN TrimStart(DropFirst(s, 1))
    ELSE s

RECURSIVE TrimEnd(_)
TrimEnd(s) ==
    IF Len(s) >= 1 /\ IsWhitespace(CharAt(s, Len(s)))
    THEN TrimEnd(SubSeq(s, 1, Len(s) - 1))
    ELSE s

\* utils::Words: an iterator over the whitespace-separated words of a
\* string.  The iterator state is the part of the string not yet consumed.
WordsNew(s) == TrimStart(s)

\* Words::next: [word |-> the next word or None, it |-> the iterator after]
WordsNext(it) ==
    IF it = "" THEN [word |-> None, it |-> ""]
    ELSE LET n == FindWhitespace(it, 1) IN
         IF n = 0 THEN [word |-> it, it |-> ""]
         ELSE [word |-> SubSeq(it, 1, n - 1),
               it   |-> TrimStart(DropFirst(it, n - 1))]

\* Words::rest: the remainder of the string, verbatim
WordsRest(it) == it

RECURSIVE WordList(_)
WordList(it) ==
    LET r == WordsNext(it) IN
    IF r.word = None THEN <<>> ELSE <<r.word>> \o WordList(r.it)

\* ------------------------------------------------------------------------
\* u32 arithmetic.  A u32 is <<hi, lo>>, standing for hi * 2^16 + lo, so that
\* the full 32-bit range is kept.
\* ------------------------------------------------------------------------

Half == 65536

U32Max == <<Half - 1, Half - 1>>

U32(n) == <<n \div Half, n % Half>>

U32Le(a, b) == a[1] < b[1] \/ (a[1] = b[1] /\ a[2] <= b[2])

\* u32::wrapping_add, in the place of the saturating addition
SaturatingAdd_Wrapping(a, b) ==
    LET lo == a[2] + b[2]
        hi == a[1] + b[1] + (lo \div Half)
    IN  <<hi % Half, lo % Half>>

\* u32::saturating_add
SaturatingAdd(a, b) ==
    LET lo == a[2] + b[2]
        hi == a[1] + b[1] + (lo \div Half)
    IN  IF hi >= Half THEN U32Max ELSE <<hi, lo % Half>>

\* u32::saturating_sub
SaturatingSub(a, b) ==
    IF U32Le(a, b) THEN <<0, 0>>
    ELSE LET borrow == IF a[2] < b[2] THEN 1 ELSE 0
         IN  <<a[1] - b[1] - borrow, a[2] + borrow * Half - b[2]>>

\* u32::min
U32Min(a, b) == IF U32Le(a, b) THEN a ELSE b

\* the number a u32 stands for (used only below 2^31)
U32Val(a) == a[1] * Half + a[2]

Digits == "0123456789"

IsDigit(c) == c \in {"0", "1", "2", "3", "4", "5", "6", "7", "8", "9"}

DigitVal(c) ==
    CASE c = "0" -> 0 [] c = "1" -> 1 [] c = "2" -> 2 [] c = "3" -> 3
      [] c = "4" -> 4 [] c = "5" -> 5 [] c = "6" -> 6 [] c = "7" -> 7
      [] c = "8" -> 8 [] c = "9" -> 9

\* acc * 10 + d with the overflow check of u32::checked_mul / checked_add
RECURSIVE ParseDigits(_, _)
ParseDigits(s, acc) ==
    IF s = "" THEN acc
    ELSE IF ~IsDigit(CharAt(s, 1)) THEN None
    ELSE LET lo == acc[2] * 10 + DigitVal(CharAt(s, 1))
             hi == acc[1] * 10 + (lo \div Half)
         IN  IF hi >= Half THEN None
             ELSE ParseDigits(DropFirst(s, 1), <<hi, lo % Half>>)

\* str::parse::<u32>: None for Err(_), the number otherwise
ParseU32(s) ==
    IF s = "" THEN None
    ELSE IF s \in {"+", "-"} THEN None
    ELSE IF CharAt(s, 1) = "+" THEN ParseDigits(DropFirst(s, 1), <<0, 0>>)
    ELSE ParseDigits(s, <<0, 0>>)

\* Display of an unsigned number (format!("{}", n))
RECURSIVE DecStr(_)
DecStr(n) ==
    IF n < 10 THEN CharAt(Digits, n + 1)
    ELSE DecStr(n \div 10) \o CharAt(Digits, (n % 10) + 1)

\* ------------------------------------------------------------------------
\* State
\* ------------------------------------------------------------------------

VARIABLES
    \* configuration and stores
    features,      \* Features: channel -> FeatureSet, for the configured ones
    players,       \* players: the channels that have a player registered
    notify_rewards, \* Channel.notify_rewards of channel Full
    bad_words,     \* words::Words: word -> reason template (NoWhy: no reason)
    volume,        \* the current volume of the player
    queue,         \* the song queue of the player, head first
    commands,      \* commands::Commands: <<channel, name>> -> template
    counters,      \* counters::Counters: <<channel, name>> -> [count, text]
    balances,      \* db balances: user -> amount
    stream_info,   \* stream_infos: channel -> its StreamInfo cell (Absent at
                   \* start)
    poisoned,      \* whether the lock of the cell of Full is poisoned
    \* the transport stream and its consumer
    inbound,       \* items arrived on the stream and not yet dispatched
    arrivals,      \* the number of items arrived so far
    cur,           \* the item being dispatched
    pc,            \* the consumer: "poll", "handling", "done" or "closed"
    order,         \* the arrival numbers of the items dispatched, in order
    finished,      \* the number of dispatches completed
    failures,      \* the number of them that met an error
    increments,    \* counter key -> the increments that have succeeded
    last,          \* what the dispatch just completed did (NoLast otherwise)
    \* the Sender
    queued,        \* units spawned by Sender::send, not yet at the limiter
    holder,        \* 1 while a unit holds the limiter's mutex inside wait()
    ready,         \* units that have taken their token and not yet written
    tokens,        \* the tokens in the bucket
    clock,         \* the time elapsed, in milliseconds
    written,       \* the number of physical writes made
    lost,          \* the messages whose write has failed
    send_errors,   \* the lines "failed to send message" logged
    \* the periodic loops of channel Full
    reward_alive,  \* the reward loop has not ended
    info_alive,    \* the status-refresh loop has not ended
    reward_ticks,  \* the ticks the reward loop has run
    info_ticks,    \* the ticks the status-refresh loop has run
    fetches,       \* the platform fetches made: [reward, info]
    \* the platform updates spawned on the thread pool
    updates,       \* the updates spawned and not yet completed
    task,          \* what the update just completed did (observation)
    \* the futures that run joins, and the player event bridge
    tasks,         \* player, bridge, send, stream -> "running", "done" (the
                   \* future has completed) or "failed" (it has ended in Err)
    events,        \* the events the bridges have received, in order
    announced,     \* the messages the bridges have enqueued, in order
    \* the units of the Sender, told apart
    units,         \* unit number (the order of the sends) -> "queued",
                   \* "waiting" (inside wait()), "ready" or "written"
    wire,          \* the numbers of the units that have written, in the
                   \* order of the writes
    \* the remote update loop (bot/src/api/setbac.rs)
    remote_builder, \* RemoteBuilder: player, enabled, api_url
    remote,        \* Remote: rx (the events its reader holds, NoReader when
                   \* absent), client, setbac
    bus,           \* the events sent on the global bus, the pushes made and
                   \* the failures logged (observation)
    \* the web database
    tree,          \* the sled tree: serialized key -> value
    procs,         \* the calls of insert_key and delete_key in progress
    \* the key codec of the web database
    codec,         \* the key in hand, its bytes and what they decode to
    period,        \* the writes made and the time elapsed when the period
                   \* under observation began (NoPeriod before it)
    tick           \* what the latest tick did and the participants it
                   \* fetched (observation)

\* ------------------------------------------------------------------------
\* Configuration (immutable after load)
\* ------------------------------------------------------------------------

Feature == {"Song", "Command", "Counter", "AfterStream", "BadWords",
            "UrlWhitelist", "Admin"}

\* the configured channels, one for each feature set of interest, and a
\* channel name absent from the configuration
Full == "#full"
WordsChan == "#words"
UrlsChan == "#urls"
BothChan == "#both"
SongChan == "#song"
Bare == "#bare"
AdminChan == "#admin"
CustomChan == "#custom"
\* a channel entry whose name is the nickname of a sender (Channel.name is
\* any string): the reply target of a direct message of that sender
Direct == "viewer"
Unknown == "#unknown"

\* Config.channels[..].features; SongChan has the flag but no player
ChannelFeatures ==
    (Full :> Feature) @@ (WordsChan :> {"BadWords"})
    @@ (UrlsChan :> {"UrlWhitelist"})
    @@ (BothChan :> {"BadWords", "UrlWhitelist"})
    @@ (SongChan :> {"Song"}) @@ (Bare :> {})
    @@ (Direct :> {"BadWords"}) @@ (AdminChan :> {"Admin"})
    @@ (CustomChan :> {"Command", "Counter"})

\* the channels that have a streamer, and with it a StreamInfo cell and a
\* status-refresh loop
InfoChannels == {Full, AdminChan}

\* Config.channels[..].player: the channels that configure a player
PlayerConfigs == {Full, WordsChan}

\* players: a player is set up for a channel that has Song and configures
\* one
ChannelPlayers ==
    {ch \in PlayerConfigs : "Song" \in ChannelFeatures[ch]}

\* Config.moderators
Moderators == {"mod"}

\* Config.whitelisted_hosts
WhitelistedHosts == {"example.com"}

\* Channel.currency
CurrencyName == "coins"

\* Channel.aliases of Full: alias name -> substitute text
Aliases ==
    ("!louder" :> "!song volume +10") @@ ("turnup" :> "!song volume +10")
    @@ ("!shh" :> "song volume 0")

NoWhy == "<no-why>"
Absent == <<>>

\* String::is_channel_name (irc crate): channel names start with '#'
IsChannelName(s) == StartsWith(s, "#")

\* Message::source_nickname
SourceNickname(m) == m.nick

\* Message::response_target: the channel of a channel message, the sender
\* otherwise
ResponseTarget(m) ==
    IF m.kind = "PRIVMSG" /\ IsChannelName(m.to) THEN m.to
    ELSE SourceNickname(m)

\* a registry that gives every feature to a channel it does not know
FeaturesOf_All(channel) ==
    IF channel \in DOMAIN features THEN features[channel] ELSE Feature

\* Features::features: the configured set, or the empty set
FeaturesOf(channel) ==
    IF channel \in DOMAIN features THEN features[channel] ELSE {}

\* configs.get(target)
ConfigOf(channel) == IF channel \in DOMAIN ChannelFeatures THEN channel ELSE None

\* players.get(target)
PlayerOf(channel) == IF channel \in players THEN channel ELSE None

\* currencies.get(target)
CurrencyOf(channel) ==
    IF channel = Full THEN CurrencyName
    ELSE IF channel = CustomChan THEN "uptime"
    ELSE None

\* aliases.lookup(it): the substitute of the first word, None without one
AliasLookup(channel, it) ==
    IF channel = Full /\ WordsNext(it).word \in DOMAIN Aliases
    THEN Aliases[WordsNext(it).word]
    ELSE None

\* ------------------------------------------------------------------------
\* The handler's working state during one dispatch: the stores it may
\* change, the outbound messages it has enqueued (out), the mutating
\* collaborator calls it has issued (calls) and the lines it has logged (logs).
\* ------------------------------------------------------------------------

Ctx0 ==
    [bw |-> bad_words, vol |-> volume, queue |-> queue, cmds |-> commands,
     ctrs |-> counters, out |-> <<>>, calls |-> <<>>, logs |-> <<>>]

Ok(c) == [c |-> c, ok |-> TRUE, e |-> ""]
\* Err(e): the branch failed with error e
Err(c, e) == [c |-> c, ok |-> FALSE, e |-> e]

\* a panic of the handler: .expect("lock poisoned") on a poisoned lock
PanicMessage == "panicked: lock poisoned"
Panic(c) == [c |-> c, ok |-> FALSE, e |-> PanicMessage]
Panicked(r) == ~r.ok /\ r.e = PanicMessage

Call(c, what) == [c EXCEPT !.calls = Append(@, what)]
Log(c, what) == [c EXCEPT !.logs = Append(@, what)]

\* Sender::send, through Sender::privmsg: one background unit is spawned
\* for the message; the caller goes on at once.
Privmsg(c, target, text) ==
    [c EXCEPT !.out = Append(@, [target |-> target, text |-> text])]

\* User::respond
Respond(c, user, text) == Privmsg(c, user.target, user.name \o " -> " \o text)

\* MessageHandler::as_user: NoUser for Err("expected user info")
NoUser == [name |-> None, target |-> None]

AsUser(m) ==
    IF SourceNickname(m) = None \/ ResponseTarget(m) = None THEN NoUser
    ELSE [name |-> SourceNickname(m), target |-> ResponseTarget(m)]

IsModerator(user) == user.name \in Moderators

Refusal(user) == "Do you think this is a democracy " \o user.name \o "? LUL"

\* a check that lets everyone through
CheckModerator_Open(c, user) == Ok(c)

CheckModerator(c, user) ==
    IF IsModerator(user) THEN Ok(c)
    ELSE Err(Privmsg(c, user.target, Refusal(user)),
             "moderator access required for action")

\* ------------------------------------------------------------------------
\* Templates (collaborator): {{name}} and {{target}} are substituted; the
\* collaborator may fail to render.
\* ------------------------------------------------------------------------

RECURSIVE Replace(_, _, _)
Replace(s, pat, val) ==
    IF Len(s) < Len(pat) THEN s
    ELSE IF SubSeq(s, 1, Len(pat)) = pat
         THEN val \o Replace(DropFirst(s, Len(pat)), pat, val)
         ELSE CharAt(s, 1) \o Replace(DropFirst(s, 1), pat, val)

Render(template, name, target) ==
    Replace(Replace(template, "{{name}}", name), "{{target}}", target)

\* ------------------------------------------------------------------------
\* Moderation pipeline
\* ------------------------------------------------------------------------

IsPunctuation(c) == c \in {".", ",", "!", "?", ":", ";"}

RECURSIVE TrimPunctuation(_)
TrimPunctuation(w) ==
    IF w = "" THEN w
    ELSE IF IsPunctuation(CharAt(w, 1)) THEN TrimPunctuation(DropFirst(w, 1))
    ELSE IF IsPunctuation(CharAt(w, Len(w)))
         THEN TrimPunctuation(SubSeq(w, 1, Len(w) - 1))
    ELSE w

\* utils::TrimmedWords: the words of the message, each trimmed of
\* punctuation, empty ones left out
RECURSIVE TrimmedWordsOf(_)
TrimmedWordsOf(ws) ==
    IF ws = <<>> THEN <<>>
    ELSE LET w == TrimPunctuation(Head(ws)) IN
         (IF w = "" THEN <<>> ELSE <<w>>) \o TrimmedWordsOf(Tail(ws))

TrimmedWords(message) == TrimmedWordsOf(WordList(WordsNew(message)))

\* Tester::test: the entry of the word, NoEntry when the filter has none
NoEntry == [word |-> None, why |-> None]

TesterTest(bw, word) ==
    IF word \in DOMAIN bw THEN [word |-> word, why |-> bw[word]] ELSE NoEntry

\* a filter that reports the last matching word of the message
RECURSIVE FirstMatch_Last(_, _)
FirstMatch_Last(bw, ws) ==
    IF ws = <<>> THEN NoEntry
    ELSE IF TesterTest(bw, ws[Len(ws)]) # NoEntry
    THEN TesterTest(bw, ws[Len(ws)])
    ELSE FirstMatch_Last(bw, SubSeq(ws, 1, Len(ws) - 1))

\* MessageHandler::test_bad_words: the entry of the first matching word
RECURSIVE FirstMatch(_, _)
FirstMatch(bw, ws) ==
    IF ws = <<>> THEN NoEntry
    ELSE IF TesterTest(bw, Head(ws)) # NoEntry THEN TesterTest(bw, Head(ws))
    ELSE FirstMatch(bw, Tail(ws))

TestBadWords(bw, message) == FirstMatch(bw, TrimmedWords(message))

\* the host of a URL-like word, None when the word is not URL-like
RECURSIVE UpTo(_, _)
UpTo(s, stops) ==
    IF s = "" \/ CharAt(s, 1) \in stops THEN ""
    ELSE CharAt(s, 1) \o UpTo(DropFirst(s, 1), stops)

HostStr(w) ==
    IF Len(w) > 7 /\ SubSeq(w, 1, 7) = "http://"
    THEN UpTo(DropFirst(w, 7), {"/", ":", "?"})
    ELSE IF Len(w) > 8 /\ SubSeq(w, 1, 8) = "https://"
    THEN UpTo(DropFirst(w, 8), {"/", ":", "?"})
    ELSE None

\* a check that takes every URL for a bad link
HasBadLink_Any(message) ==
    LET ws == WordList(WordsNew(message)) IN
    \E i \in 1..Len(ws) : HostStr(ws[i]) # None

\* MessageHandler::has_bad_link
HasBadLink(message) ==
    LET ws == WordList(WordsNew(message)) IN
    \E i \in 1..Len(ws) :
        HostStr(ws[i]) # None /\ HostStr(ws[i]) \notin WhitelistedHosts

\* a pipeline without the exemption of moderators
SenderIsModerator_Never(m) == FALSE

\* "Moderators can say whatever they want."
SenderIsModerator(m) ==
    SourceNickname(m) # None /\ SourceNickname(m) \in Moderators

\* a link check that is made only for a channel without the word filter
LinkCheck_Alone(feats, message) ==
    "BadWords" \notin feats /\ "UrlWhitelist" \in feats /\ HasBadLink(message)

\* the link check of should_be_deleted, reached when no bad word matched
LinkCheck(feats, message) ==
    "UrlWhitelist" \in feats /\ HasBadLink(message)

\* MessageHandler::should_be_deleted: the verdict, and the handler state
\* after the warning it may have enqueued
Verdict(c, flagged) == [c |-> c, flagged |-> flagged]

\* a check that is left out once a command of the message has failed
ShouldBeDeleted_UnlessFailed(c, feats, m, message, fx) ==
    LET user == SourceNickname(m)
        word == TestBadWords(c.bw, message)
    IN
    IF SenderIsModerator(m) \/ c.logs # <<>> THEN Verdict(c, FALSE)
    ELSE IF "BadWords" \in feats /\ word # NoEntry THEN
        IF word.why # NoWhy /\ user # None /\ ResponseTarget(m) # None
        THEN IF fx.render
             THEN Verdict(Privmsg(c, ResponseTarget(m),
                                  Render(word.why, user, ResponseTarget(m))),
                          TRUE)
             ELSE Verdict(Log(c, "failed to render response"), TRUE)
        ELSE Verdict(c, TRUE)
    ELSE IF LinkCheck(feats, message)
    THEN Verdict(c, TRUE)
    ELSE Verdict(c, FALSE)

ShouldBeDeleted(c, feats, m, message, fx) ==
    LET user == SourceNickname(m)
        word == TestBadWords(c.bw, message)
    IN
    IF SenderIsModerator(m) THEN Verdict(c, FALSE)
    ELSE IF "BadWords" \in feats /\ word # NoEntry THEN
        IF word.why # NoWhy /\ user # None /\ ResponseTarget(m) # None
        THEN IF fx.render
             THEN Verdict(Privmsg(c, ResponseTarget(m),
                                  Render(word.why, user, ResponseTarget(m))),
                          TRUE)
             ELSE Verdict(Log(c, "failed to render response"), TRUE)
        ELSE Verdict(c, TRUE)
    ELSE IF LinkCheck(feats, message)
    THEN Verdict(c, TRUE)
    ELSE Verdict(c, FALSE)

\* a reading of the tags that takes the first id tag, valued or not
RECURSIVE MessageId_First(_)
MessageId_First(tags) ==
    IF tags = <<>> THEN None
    ELSE IF tags[1][1] = "id" THEN
        IF tags[1][2] = None THEN "" ELSE tags[1][2]
    ELSE MessageId_First(Tail(tags))

\* MessageHandler::tags: the value of the last tag named id that has a
\* value, None without one.  A tag is <<name, value>>, its value None when
\* it has none; a message without tags has the empty sequence.
RECURSIVE MessageId(_)
MessageId(tags) ==
    IF tags = <<>> THEN None
    ELSE LET t == tags[Len(tags)] IN
         IF t[1] = "id" /\ t[2] # None THEN t[2]
         ELSE MessageId(SubSeq(tags, 1, Len(tags) - 1))

\* MessageHandler::delete_message
DeleteMessage(c, source, m) ==
    IF MessageId(m.tags) = None THEN c
    ELSE Privmsg(c, source, "/delete " \o MessageId(m.tags))

\* ------------------------------------------------------------------------
\* Collaborator outcomes of one dispatch: whether the calls to the balance
\* lookup, the persistent stores, the template renderer, the player and the
\* notifier succeed.
\* ------------------------------------------------------------------------

AllOk == [balance |-> TRUE, store |-> TRUE, render |-> TRUE, player |-> TRUE,
          notify |-> TRUE]

AllFail == [balance |-> FALSE, store |-> FALSE, render |-> FALSE,
            player |-> FALSE, notify |-> FALSE]

Outcomes ==
    {AllOk, AllFail, [AllOk EXCEPT !.store = FALSE],
     [AllOk EXCEPT !.render = FALSE]}

\* ------------------------------------------------------------------------
\* !badword
\* ------------------------------------------------------------------------

\* words::Words::edit
WordsEdit(bw, word, why) == (word :> why) @@ bw

\* words::Words::delete
WordsDelete(bw, word) == [w \in DOMAIN bw \ {word} |-> bw[w]]

\* the remainder handed on as it is, the empty one too
BadWordWhy_Always(rest) == rest

\* the reason handed to Words::edit: None for an empty remainder
BadWordWhy(rest) == IF rest = "" THEN NoWhy ELSE rest

\* MessageHandler::handle_bad_word
HandleBadWord(c, user, it, fx) ==
    LET a == WordsNext(it)
        b == WordsNext(a.it)
        cm == CheckModerator(c, user)
    IN
    CASE a.word = "edit" ->
           IF ~cm.ok THEN cm
           ELSE IF b.word = None THEN Err(c, "expected word")
           ELSE LET why == BadWordWhy(WordsRest(b.it))
                    called == Call(c, "bad_words.edit")
                IN  IF ~fx.store THEN Err(called, "store error")
                    ELSE Ok(Respond([called EXCEPT
                                       !.bw = WordsEdit(@, b.word, why)],
                                    user, "Bad word edited"))
      [] a.word = "delete" ->
           IF ~cm.ok THEN cm
           ELSE IF b.word = None THEN Err(c, "expected word")
           ELSE IF ~fx.store THEN Err(Call(c, "bad_words.delete"), "store error")
           ELSE IF b.word \in DOMAIN c.bw
                THEN Ok(Respond([c EXCEPT !.bw = WordsDelete(@, b.word),
                                          !.calls = Append(@, "bad_words.delete")],
                                user, "Bad word removed."))
                ELSE Ok(Respond(Call(c, "bad_words.delete"), user,
                                "Bad word did not exist."))
      [] a.word = None ->
           Ok(Respond(c, user,
                      "!badword is a word filter, removing unwanted messages."))
      [] OTHER -> Ok(Respond(c, user, "Expected: edit, or delete."))

\* ------------------------------------------------------------------------
\* !song
\* ------------------------------------------------------------------------

\* Item::what
What(item) == item.what

RECURSIVE LastIndexBy(_, _, _)
LastIndexBy(q, user, i) ==
    IF i = 0 THEN 0
    ELSE IF q[i].user = user THEN i
    ELSE LastIndexBy(q, user, i - 1)

RemoveAt(q, i) == SubSeq(q, 1, i - 1) \o SubSeq(q, i + 1, Len(q))

\* the "#i: what (user)" lines of display_songs, joined with "; "
RECURSIVE SongLines(_, _)
SongLines(items, index) ==
    IF items = <<>> THEN ""
    ELSE LET line == "#" \o DecStr(index) \o ": " \o What(Head(items))
                     \o (IF Head(items).user = None THEN ""
                         ELSE " (" \o Head(items).user \o ")")
         IN  IF Len(items) = 1 THEN line
             ELSE line \o "; " \o SongLines(Tail(items), index + 1)

\* MessageHandler::display_songs; has_more is 0 for None
DisplaySongs(c, user, has_more, items) ==
    IF items = <<>> THEN Respond(c, user, "Song queue is empty.")
    ELSE IF has_more > 0
    THEN Respond(c, user, SongLines(items, 0) \o " ... and "
                          \o DecStr(has_more) \o " more.")
    ELSE Respond(c, user, SongLines(items, 0) \o ".")

\* str::parse::<usize> (the inputs of the model stay below 2^31)
ParseUsize(s) == ParseU32(s)

Min(a, b) == IF a <= b THEN a ELSE b

\* the result of a removal: the song removed is reported, or none was
Removed(c, user, i) ==
    IF i = 0 THEN Ok(Respond(Call(c, "player.remove"), user,
                             "No song removed, sorry :("))
    ELSE Ok(Respond([c EXCEPT !.queue = RemoveAt(@, i),
                              !.calls = Append(@, "player.remove")],
                    user, "Removed: " \o What(c.queue[i]) \o "!"))

\* the `volume <arg>` branch after the moderator check: the new volume
\* as a u32, None when the argument is not a number
VolumeArgument(current, other) ==
    LET diff == IF StartsWith(other, "+") THEN "add"
                ELSE IF StartsWith(other, "-") THEN "sub"
                ELSE "set"
        text == IF diff = "set" THEN other ELSE DropFirst(other, 1)
        argument == ParseU32(text)
    IN  IF argument = None THEN None
        ELSE U32Min(U32(100),
                    CASE diff = "add" -> SaturatingAdd(U32(current), argument)
                      [] diff = "sub" -> SaturatingSub(U32(current), argument)
                      [] OTHER -> argument)

\* a handler that calls the player before it answers
SetVolume_CallFirst(c, user, argument, fx) ==
    LET called == Call(c, "player.volume " \o DecStr(argument))
    IN  IF ~fx.player THEN Err(called, "player error")
        ELSE Ok(Respond([called EXCEPT !.vol = argument], user,
                        "Volume set to " \o DecStr(argument) \o "."))

\* the end of the `volume <arg>` branch: the confirmation is enqueued, then
\* player.volume(argument)? is called
SetVolume(c, user, argument, fx) ==
    LET replied == Respond(c, user,
                           "Volume set to " \o DecStr(argument) \o ".")
        called == Call(replied, "player.volume " \o DecStr(argument))
    IN  IF ~fx.player THEN Err(called, "player error")
        ELSE Ok([called EXCEPT !.vol = argument])

\* a moderator-only player call without a reply (skip, toggle, play, pause)
PlayerCall(c, user, what, fx) ==
    LET cm == CheckModerator(c, user) IN
    IF ~cm.ok THEN cm
    ELSE IF ~fx.player THEN Err(Call(c, what), "player error")
    ELSE Ok(Call(c, what))

\* a parse that takes the position as the index
ParseQueuePosition_FromZero(c, user, n) ==
    IF ParseUsize(n) = None
    THEN [r |-> Err(Respond(c, user, "Expected whole number argument"),
                    "bad whole number argument"), index |-> 0]
    ELSE IF U32Val(ParseUsize(n)) = 0
    THEN [r |-> Err(Respond(c, user, "Can't remove the current song :("),
                    "bad command"), index |-> 0]
    ELSE [r |-> Ok(c), index |-> U32Val(ParseUsize(n))]

\* parse_queue_position, here on top of the handler's state: the position as
\* an index from 0, or the scripted reply and the error
ParseQueuePosition(c, user, n) ==
    IF ParseUsize(n) = None
    THEN [r |-> Err(Respond(c, user, "Expected whole number argument"),
                    "bad whole number argument"), index |-> 0]
    ELSE IF U32Val(ParseUsize(n)) = 0
    THEN [r |-> Err(Respond(c, user, "Can't remove the current song :("),
                    "bad command"), index |-> 0]
    ELSE [r |-> Ok(c), index |-> U32Val(ParseUsize(n)) - 1]

\* PlayerClient::promote_song: the queue with the item at index (from 0)
\* moved to its head
PromoteSong(q, index) ==
    <<q[index + 1]>> \o RemoveAt(q, index + 1)

\* the promote branch of Song::handle
SongPromote(c, user, it, fx) ==
    LET b == WordsNext(it)
        cm == CheckModerator(c, user)
        p == ParseQueuePosition(c, user, b.word)
    IN
    IF ~cm.ok THEN cm
    ELSE IF b.word = None THEN Err(c, "bad command")
    ELSE IF ~p.r.ok THEN p.r
    ELSE IF p.index < Len(c.queue)
    THEN Ok(Respond([c EXCEPT !.queue = PromoteSong(@, p.index),
                              !.calls = Append(@, "player.promote_song")],
                    user, "Promoted song to head of queue: "
                          \o What(c.queue[p.index + 1])))
    ELSE Ok(Respond(Call(c, "player.promote_song"), user,
                    "No such song to promote"))

\* the delete branch of Song::handle: last, last <user>, mine, or a position
SongDelete(c, user, it, fx) ==
    LET b == WordsNext(it)
        d == WordsNext(b.it)
        cm == CheckModerator(c, user)
        p == ParseQueuePosition(c, user, b.word)
    IN
    CASE b.word = "last" ->
           IF ~cm.ok THEN cm
           ELSE IF ~fx.player
           THEN Err(Call(c, "player.remove"), "player error")
           ELSE IF d.word # None
           THEN Removed(c, user, LastIndexBy(c.queue, d.word, Len(c.queue)))
           ELSE Removed(c, user, Len(c.queue))
      [] b.word = "mine" ->
           IF ~fx.player
           THEN Err(Call(c, "player.remove"), "player error")
           ELSE Removed(c, user, LastIndexBy(c.queue, user.name,
                                             Len(c.queue)))
      [] b.word = None ->
           Err(Respond(c, user, "Expected: last, last <user>, or mine"),
               "bad command")
      [] OTHER ->
           IF ~cm.ok THEN cm
           ELSE IF ~p.r.ok THEN p.r
           ELSE IF ~fx.player
           THEN Err(Call(c, "player.remove"), "player error")
           ELSE Removed(c, user, IF p.index < Len(c.queue) THEN p.index + 1
                                 ELSE 0)

\* Song::handle, its branches that take a position
SongHandle(c, user, it, fx) ==
    LET a == WordsNext(it) IN
    CASE a.word = "promote" -> SongPromote(c, user, a.it, fx)
      [] a.word = "delete" -> SongDelete(c, user, a.it, fx)
      [] OTHER -> Ok(c)

\* MessageHandler::handle_song, with the promote branch of Song::handle
HandleSong(c, user, it, fx) ==
    LET a == WordsNext(it)
        b == WordsNext(a.it)
        d == WordsNext(b.it)
        cm == CheckModerator(c, user)
    IN
    IF PlayerOf(user.target) = None
    THEN Ok(Log(c, "No player configured for channel :("))
    ELSE
    CASE a.word = "mine" -> Ok(c)
      [] a.word = "list" ->
           IF b.word # None /\ ~cm.ok THEN cm
           ELSE LET limit == IF b.word # None /\ ParseUsize(b.word) # None
                             THEN U32Val(ParseUsize(b.word)) ELSE 3
                    items == SubSeq(c.queue, 1, Min(Len(c.queue), limit + 1))
                    has_more == IF Len(items) > limit THEN Len(items) - limit
                                ELSE 0
                IN  Ok(DisplaySongs(c, user, has_more,
                                    SubSeq(items, 1, Min(Len(items), limit))))
      [] a.word = "current" ->
           IF c.queue = <<>> THEN Ok(Respond(c, user, "No song :("))
           ELSE IF Head(c.queue).user # None
           THEN Ok(Respond(c, user, "Current song: " \o What(Head(c.queue))
                           \o ", requested by " \o Head(c.queue).user \o "."))
           ELSE Ok(Respond(c, user, "Current song: " \o What(Head(c.queue))))
      [] a.word = "delete" ->
           CASE b.word = "last" ->
                  IF ~cm.ok THEN cm
                  ELSE IF ~fx.player
                  THEN Err(Call(c, "player.remove"), "player error")
                  ELSE IF d.word # None
                  THEN Removed(c, user, LastIndexBy(c.queue, d.word,
                                                    Len(c.queue)))
                  ELSE Removed(c, user, Len(c.queue))
             [] b.word = "mine" ->
                  IF ~fx.player
                  THEN Err(Call(c, "player.remove"), "player error")
                  ELSE Removed(c, user, LastIndexBy(c.queue, user.name,
                                                    Len(c.queue)))
             [] OTHER ->
                  Err(Respond(c, user, "Expected: last, last <user>, or mine"),
                      "bad command")
      [] a.word = "volume" ->
           IF b.word = None
           THEN Ok(Respond(c, user, "Current volume: " \o DecStr(c.vol) \o "."))
           ELSE IF ~cm.ok THEN cm
           ELSE LET argument == VolumeArgument(c.vol, b.word) IN
                IF argument = None
                THEN Err(Respond(c, user, "expected numeric argument"),
                         "bad command")
                ELSE SetVolume(c, user, U32Val(argument), fx)
      [] a.word = "skip" -> PlayerCall(c, user, "player.skip", fx)
      [] a.word = "promote" -> SongPromote(c, user, a.it, fx)
      [] a.word = "request" ->
           IF b.word = None
           THEN Err(Respond(c, user, "expected: !song request <id>|<text>"),
                    "bad command")
           ELSE Ok(Call(c, "spawn add_track"))
      [] a.word = "toggle" -> PlayerCall(c, user, "player.toggle", fx)
      [] a.word = "play" -> PlayerCall(c, user, "player.play", fx)
      [] a.word = "pause" -> PlayerCall(c, user, "player.pause", fx)
      [] a.word = "length" ->
           IF c.queue = <<>> THEN Ok(Respond(c, user, "No songs in queue :("))
           ELSE IF Len(c.queue) = 1
           THEN Ok(Respond(c, user, "One song in queue with <t> of play time."))
           ELSE Ok(Respond(c, user, DecStr(Len(c.queue))
                           \o " songs in queue with <t> of play time."))
      [] OTHER -> Ok(Respond(c, user, "Expected: skip, request, or toggle."))

\* ------------------------------------------------------------------------
\* !command and !counter administration.  Both stores are keyed by
\* <<channel, name>>.
\* ------------------------------------------------------------------------

Alphabet == "!#0123456789abcdefghijklmnopqrstuvwxyz"

RECURSIVE Rank(_, _)
Rank(ch, i) ==
    IF i > Len(Alphabet) THEN 0
    ELSE IF CharAt(Alphabet, i) = ch THEN i
    ELSE Rank(ch, i + 1)

\* the order of str (byte-wise) on the characters of Alphabet
RECURSIVE StrLess(_, _)
StrLess(x, y) ==
    IF y = "" THEN FALSE
    ELSE IF x = "" THEN TRUE
    ELSE IF CharAt(x, 1) = CharAt(y, 1)
         THEN StrLess(DropFirst(x, 1), DropFirst(y, 1))
         ELSE Rank(CharAt(x, 1), 1) < Rank(CharAt(y, 1), 1)

\* names.sort(); names.join(", ")
RECURSIVE SortedJoin(_)
SortedJoin(names) ==
    IF names = {} THEN ""
    ELSE LET first == CHOOSE n \in names :
                          \A o \in names \ {n} : StrLess(n, o)
         IN  IF names = {first} THEN first
             ELSE first \o ", " \o SortedJoin(names \ {first})

\* the "!name" of every entry a store holds for the channel
NamesOf(store, channel) ==
    {"!" \o k[2] : k \in {x \in DOMAIN store : x[1] = channel}}

\* Commands::edit / Counters::edit
StoreEdit(store, key, value) == (key :> value) @@ store

\* Commands::delete / Counters::delete
StoreDelete(store, key) == [k \in DOMAIN store \ {key} |-> store[k]]

\* the value a counter takes when its template is edited: the count is kept
CounterEdited(ctrs, key, text) ==
    [count |-> IF key \in DOMAIN ctrs THEN ctrs[key].count ELSE 0,
     text |-> text]

\* MessageHandler::handle_command
HandleCommand(c, user, it, fx) ==
    LET a == WordsNext(it)
        b == WordsNext(a.it)
        cm == CheckModerator(c, user)
        key == <<user.target, b.word>>
    IN
    CASE a.word = "list" ->
           IF NamesOf(c.cmds, user.target) = {}
           THEN Ok(Respond(c, user, "No custom commands."))
           ELSE Ok(Respond(c, user, "Custom commands: "
                           \o SortedJoin(NamesOf(c.cmds, user.target))))
      [] a.word = "edit" ->
           IF ~cm.ok THEN cm
           ELSE IF b.word = None THEN Err(Respond(c, user, "Expected name."), "bad command")
           ELSE IF ~fx.store THEN Err(Call(c, "commands.edit"), "store error")
           ELSE Ok(Respond([c EXCEPT !.cmds = StoreEdit(@, key, WordsRest(b.it)),
                                     !.calls = Append(@, "commands.edit")],
                           user, "Edited command."))
      [] a.word = "delete" ->
           IF ~cm.ok THEN cm
           ELSE IF b.word = None THEN Err(Respond(c, user, "Expected name."), "bad command")
           ELSE IF ~fx.store THEN Err(Call(c, "commands.delete"), "store error")
           ELSE IF key \in DOMAIN c.cmds
           THEN Ok(Respond([c EXCEPT !.cmds = StoreDelete(@, key),
                                     !.calls = Append(@, "commands.delete")],
                           user, "Deleted command '" \o b.word \o "'."))
           ELSE Ok(Respond(Call(c, "commands.delete"), user, "No such command."))
      [] OTHER -> Ok(Respond(c, user, "Expected: list, edit, or delete."))

\* MessageHandler::handle_counter
HandleCounter(c, user, it, fx) ==
    LET a == WordsNext(it)
        b == WordsNext(a.it)
        cm == CheckModerator(c, user)
        key == <<user.target, b.word>>
    IN
    CASE a.word = "list" ->
           IF NamesOf(c.ctrs, user.target) = {}
           THEN Ok(Respond(c, user, "No custom counters."))
           ELSE Ok(Respond(c, user, "Custom counters: "
                           \o SortedJoin(NamesOf(c.ctrs, user.target))))
      [] a.word = "edit" ->
           IF ~cm.ok THEN cm
           ELSE IF b.word = None THEN Err(Respond(c, user, "Expected name."), "bad command")
           ELSE IF ~fx.store THEN Err(Call(c, "counters.edit"), "store error")
           ELSE Ok(Respond([c EXCEPT !.ctrs = StoreEdit(@, key,
                               CounterEdited(c.ctrs, key, WordsRest(b.it))),
                                     !.calls = Append(@, "counters.edit")],
                           user, "Edited command."))
      [] a.word = "delete" ->
           IF ~cm.ok THEN cm
           ELSE IF b.word = None THEN Err(Respond(c, user, "Expected name."), "bad command")
           ELSE IF ~fx.store THEN Err(Call(c, "counters.delete"), "store error")
           ELSE IF key \in DOMAIN c.ctrs
           THEN Ok(Respond([c EXCEPT !.ctrs = StoreDelete(@, key),
                                     !.calls = Append(@, "counters.delete")],
                           user, "Deleted command '" \o b.word \o "'."))
           ELSE Ok(Respond(Call(c, "counters.delete"), user, "No such command."))
      [] OTHER -> Ok(Respond(c, user, "Expected: list, edit, or delete."))

\* ------------------------------------------------------------------------
\* uptime / title / game
\* ------------------------------------------------------------------------

\* stream_infos.get(target), read under the read lock
StreamInfoOf(channel) ==
    IF channel \in DOMAIN stream_info THEN stream_info[channel] ELSE Absent

\* a reader that takes the value out of a poisoned lock
LockPoisoned_Tolerant(channel) == FALSE

\* s.read() of the cell of the channel is Err: the lock is poisoned
LockPoisoned(channel) ==
    channel \in DOMAIN stream_info /\ channel = Full /\ poisoned

\* MessageHandler::handle_uptime
HandleUptime(c, user) ==
    LET info == StreamInfoOf(user.target) IN
    IF info # Absent /\ info[3] # None
    THEN Respond(c, user, "Stream has been live for <t>.")
    ELSE Respond(c, user, "Stream is not live right now, try again later!")

\* MessageHandler::handle_title
HandleTitle(c, user) ==
    LET info == StreamInfoOf(user.target) IN
    IF info # Absent THEN Respond(c, user, info[1])
    ELSE Respond(c, user, "Stream is not live right now, try again later!")

\* MessageHandler::handle_game
HandleGame(c, user) ==
    LET info == StreamInfoOf(user.target) IN
    IF info # Absent /\ info[2] # None THEN Respond(c, user, info[2])
    ELSE Respond(c, user, "Unfortunately I don't know the game, sorry!")

\* MessageHandler::handle_update_title: the platform call is spawned
HandleUpdateTitle(c, user, title) == Call(c, "spawn update_channel title")

\* MessageHandler::handle_update_game
HandleUpdateGame(c, user, game) == Call(c, "spawn update_channel game")

\* ------------------------------------------------------------------------
\* Command routing
\* ------------------------------------------------------------------------

\* db.balance_of(&user.name)?.unwrap_or(0): a balance of one is recorded
\* instead of none
BalanceOf_One(name) ==
    IF name \in DOMAIN balances THEN balances[name] ELSE 1

\* db.balance_of(&user.name)?.unwrap_or(0)
BalanceOf(name) == IF name \in DOMAIN balances THEN balances[name] ELSE 0

\* an increment that writes back the count it has read before another
\* increment: the update is lost
CountersIncrement_Lost(ctrs, key) ==
    [ctrs EXCEPT ![key].count = IF @ = 0 THEN 1 ELSE @]

\* counters.increment(&*counter): one is added to the count in one step
CountersIncrement(ctrs, key) == [ctrs EXCEPT ![key].count = @ + 1]

\* the currency branch of the fallback
CurrencyBranch(c, user, other, fx) ==
    IF CurrencyOf(user.target) # None /\ CurrencyOf(user.target) = other
    THEN IF ~fx.balance THEN Err(c, "balance error")
         ELSE Ok(Respond(c, user, "You have " \o DecStr(BalanceOf(user.name))
                                  \o " " \o CurrencyOf(user.target) \o "."))
    ELSE Ok(c)

\* the custom command branch of the fallback
CommandBranch(c, feats, user, other, fx) ==
    LET key == <<user.target, other>> IN
    IF "Command" \in feats /\ key \in DOMAIN c.cmds
    THEN IF ~fx.render THEN Err(c, "render error")
         ELSE Ok(Privmsg(c, user.target,
                         Render(c.cmds[key], user.name, user.target)))
    ELSE Ok(c)

\* a counter branch that reads the count for its reply before it increments
CounterBranch_Stale(c, feats, user, other, fx) ==
    LET key == <<user.target, other>>
        called == Call(c, "counters.increment " \o other)
        added == [called EXCEPT !.ctrs = CountersIncrement(@, key)]
    IN
    IF "Counter" \in feats /\ key \in DOMAIN c.ctrs
    THEN IF ~fx.store THEN Err(called, "store error")
         ELSE IF ~fx.render THEN Err(added, "render error")
         ELSE Ok(Privmsg(added, user.target,
                         Replace(Render(c.ctrs[key].text, user.name,
                                        user.target),
                                 "{{count}}", DecStr(c.ctrs[key].count))))
    ELSE Ok(c)

\* the counter branch of the fallback: the increment, then the reply with
\* the count read after it
CounterBranch(c, feats, user, other, fx) ==
    LET key == <<user.target, other>>
        called == Call(c, "counters.increment " \o other)
        added == [called EXCEPT !.ctrs = CountersIncrement(@, key)]
    IN
    IF "Counter" \in feats /\ key \in DOMAIN c.ctrs
    THEN IF ~fx.store THEN Err(called, "store error")
         ELSE IF ~fx.render THEN Err(added, "render error")
         ELSE Ok(Privmsg(added, user.target,
                         Replace(Render(added.ctrs[key].text, user.name,
                                        user.target),
                                 "{{count}}", DecStr(added.ctrs[key].count))))
    ELSE Ok(c)

\* a fallback that stops at the first branch that applies
Fallback_Exclusive(c, feats, user, other, fx) ==
    LET r1 == CurrencyBranch(c, user, other, fx)
        r2 == CommandBranch(c, feats, user, other, fx)
    IN  IF r1.c # c \/ ~r1.ok THEN r1
        ELSE IF r2.c # c \/ ~r2.ok THEN r2
        ELSE CounterBranch(c, feats, user, other, fx)

\* the `other` arm of process_command: the three lookups, one after the
\* other, each ended by ? on its error
Fallback(c, feats, user, other, fx) ==
    LET r1 == CurrencyBranch(c, user, other, fx)
        r2 == CommandBranch(r1.c, feats, user, other, fx)
    IN  IF ~r1.ok THEN r1
        ELSE IF ~r2.ok THEN r2
        ELSE CounterBranch(r2.c, feats, user, other, fx)

\* a routing that asks for Counter before handle_counter
Route_CounterGated(feats, command) ==
    CASE command = "ping" -> "ping"
      [] command = "song" /\ "Song" \in feats -> "song"
      [] command = "command" /\ "Command" \in feats -> "command"
      [] command = "counter" /\ "Counter" \in feats -> "counter"
      [] command = "afterstream" /\ "AfterStream" \in feats -> "afterstream"
      [] command = "badword" /\ "BadWords" \in feats -> "badword"
      [] command = "uptime" /\ "Admin" \in feats -> "uptime"
      [] command = "title" /\ "Admin" \in feats -> "title"
      [] command = "game" /\ "Admin" \in feats -> "game"
      [] OTHER -> "other"

\* the arm of `match command` that is taken: a built-in by its name and its
\* guard, else `other`
Route(feats, command) ==
    CASE command = "ping" -> "ping"
      [] command = "song" /\ "Song" \in feats -> "song"
      [] command = "command" /\ "Command" \in feats -> "command"
      [] command = "counter" -> "counter"
      [] command = "afterstream" /\ "AfterStream" \in feats -> "afterstream"
      [] command = "badword" /\ "BadWords" \in feats -> "badword"
      [] command = "uptime" /\ "Admin" \in feats -> "uptime"
      [] command = "title" /\ "Admin" \in feats -> "title"
      [] command = "game" /\ "Admin" \in feats -> "game"
      [] OTHER -> "other"

\* MessageHandler::process_command
ProcessCommand(c, feats, command, m, it, fx) ==
    LET user == AsUser(m)
        cm == CheckModerator(c, user)
        rest == WordsRest(it)
        arm == Route(feats, command)
    IN
    IF user = NoUser THEN Err(c, "expected user info")
    ELSE
    CASE arm = "ping" ->
           IF fx.notify THEN Ok(Call(Respond(c, user, "What do you want?"),
                                     "notifier.send"))
           ELSE Err(Call(Respond(c, user, "What do you want?"), "notifier.send"),
                    "notifier error")
      [] arm = "song" -> HandleSong(c, user, it, fx)
      [] arm = "command" -> HandleCommand(c, user, it, fx)
      [] arm = "counter" -> HandleCounter(c, user, it, fx)
      [] arm = "afterstream" ->
           IF ~fx.store THEN Err(Call(c, "db.insert_afterstream"), "store error")
           ELSE Ok(Respond(Call(c, "db.insert_afterstream"), user,
                           "Reminder added."))
      [] arm = "badword" -> HandleBadWord(c, user, it, fx)
      [] arm = "uptime" ->
           IF LockPoisoned(user.target) THEN Panic(c)
           ELSE Ok(HandleUptime(c, user))
      [] arm = "title" ->
           IF rest = "" THEN IF LockPoisoned(user.target) THEN Panic(c)
                             ELSE Ok(HandleTitle(c, user))
           ELSE IF ~cm.ok THEN cm
           ELSE Ok(HandleUpdateTitle(c, user, rest))
      [] arm = "game" ->
           IF rest = "" THEN IF LockPoisoned(user.target) THEN Panic(c)
                             ELSE Ok(HandleGame(c, user))
           ELSE IF ~cm.ok THEN cm
           ELSE Ok(HandleUpdateGame(c, user, rest))
      [] OTHER -> Fallback(c, feats, user, command, fx)

\* ------------------------------------------------------------------------
\* MessageHandler::handle.  The result records what the dispatch did:
\* cmd is "none" when no command was routed, else "ok" or "err"; result is
\* the Result handle returns, or "panic" when handle has not returned: the
\* panic unwinds through the consumer, which or_else does not catch.
\* ------------------------------------------------------------------------

\* a handler that tests the prefix on the first word of the original text
\* and looks up the alias after it
Handle_PrefixFirst(m, fx) ==
    LET target == ResponseTarget(m)
        feats == IF target = None THEN {} ELSE FeaturesOf(target)
        config == IF target = None THEN None ELSE ConfigOf(target)
        it0 == WordsNew(m.text)
        alias == IF config = None THEN None ELSE AliasLookup(config, it0)
        it == IF alias = None THEN it0 ELSE WordsNew(alias)
        first == WordsNext(it)
        isCommand == /\ WordsNext(it0).word # None
                     /\ StartsWith(WordsNext(it0).word, "!")
        routed == ProcessCommand(Ctx0, feats, DropFirst(first.word, 1), m,
                                 first.it, fx)
        c1 == IF ~isCommand THEN Ctx0
              ELSE IF routed.ok THEN routed.c
              ELSE Log(routed.c, "failed to process command: " \o routed.e)
        verdict == ShouldBeDeleted(c1, feats, m, m.text, fx)
        c2 == IF verdict.flagged THEN DeleteMessage(verdict.c, m.to, m)
              ELSE verdict.c
    IN
    IF m.kind = "PRIVMSG" /\ isCommand /\ Panicked(routed)
    THEN [c |-> routed.c, flagged |-> FALSE, result |-> "panic",
          cmd |-> "panic"]
    ELSE IF m.kind = "PRIVMSG"
    THEN [c |-> c2, flagged |-> verdict.flagged, result |-> "ok",
          cmd |-> IF ~isCommand THEN "none"
                  ELSE IF routed.ok THEN "ok" ELSE "err"]
    ELSE [c |-> Log(Ctx0, "info: " \o m.kind), flagged |-> FALSE,
          result |-> "ok", cmd |-> "none"]

Handle(m, fx) ==
    LET target == ResponseTarget(m)
        feats == IF target = None THEN {} ELSE FeaturesOf(target)
        config == IF target = None THEN None ELSE ConfigOf(target)
        it0 == WordsNew(m.text)
        alias == IF config = None THEN None ELSE AliasLookup(config, it0)
        it == IF alias = None THEN it0 ELSE WordsNew(alias)
        first == WordsNext(it)
        isCommand == first.word # None /\ StartsWith(first.word, "!")
        routed == ProcessCommand(Ctx0, feats, DropFirst(first.word, 1), m,
                                 first.it, fx)
        c1 == IF ~isCommand THEN Ctx0
              ELSE IF routed.ok THEN routed.c
              ELSE Log(routed.c, "failed to process command: " \o routed.e)
        verdict == ShouldBeDeleted(c1, feats, m, m.text, fx)
        c2 == IF verdict.flagged THEN DeleteMessage(verdict.c, m.to, m)
              ELSE verdict.c
    IN
    IF m.kind = "PRIVMSG" /\ isCommand /\ Panicked(routed)
    THEN [c |-> routed.c, flagged |-> FALSE, result |-> "panic",
          cmd |-> "panic"]
    ELSE IF m.kind = "PRIVMSG"
    THEN [c |-> c2, flagged |-> verdict.flagged, result |-> "ok",
          cmd |-> IF ~isCommand THEN "none"
                  ELSE IF routed.ok THEN "ok" ELSE "err"]
    ELSE [c |-> Log(Ctx0, "info: " \o m.kind), flagged |-> FALSE,
          result |-> "ok", cmd |-> "none"]

\* client.stream().map_err(..).and_then(|m| handler.handle(&m)): an Err item
\* of the transport (a message that failed to decode) skips the handler
AndThenHandle(m, fx) ==
    IF m.kind = "ERR"
    THEN [c |-> Ctx0, flagged |-> FALSE, result |-> "err", cmd |-> "none"]
    ELSE Handle(m, fx)

\* a stream without or_else: the error goes on to for_each
OrElse_Propagate(r) == r

\* .or_else(|e| { log::error!(..); Ok(()) })
OrElse(r) ==
    IF r.result = "err"
    THEN [r EXCEPT !.result = "ok",
                   !.c = Log(@, "failed to process message")]
    ELSE r

\* a stream that yields the newest item first
NextItem_Newest(q) == q[Len(q)]

\* the item the stream yields next: the oldest one
NextItem(q) == Head(q)

\* ------------------------------------------------------------------------
\* Inbound messages
\* ------------------------------------------------------------------------

Msg(kind, nick, to, tags, text) ==
    [kind |-> kind, nick |-> nick, to |-> to, tags |-> tags, text |-> text]

\* the tags of the messages: none, an id, an id without a value, other tags
\* around an id, and two ids
NoTags == <<>>
IdTags == <<<<"id", "id1">>>>
ValuelessId == <<<<"id", None>>>>
MixedTags == <<<<"badges", "x">>, <<"id", "id1">>, <<"emotes", None>>>>
TwoIds == <<<<"id", "id1">>, <<"id", "id2">>>>

CommandTexts ==
    {"!song volume +10", "!song volume -60", "!song volume 150",
     "!song volume 30", "!song volume +4294967295", "!song volume -4294967295",
     "!song volume 4294967296", "!song volume abc", "!song volume -",
     "!song volume", "!louder", "!song skip", "!song toggle", "!song play",
     "!song pause", "!song delete last", "!song delete last viewer",
     "!song delete mine", "!song delete", "!song list", "!song list 1",
     "!song current", "!song request", "!song request abc", "!song length",
     "!song", "!song mine", "!song promote", "!song promote 2",
     "!song promote x", "!song promote 0",
     "!command list", "!command edit hi hello {{name}}", "!command edit",
     "!command delete hi", "!command delete", "!command",
     "!counter list", "!counter edit deaths {{count}} deaths",
     "!counter edit", "!counter delete deaths", "!counter delete",
     "!badword edit shucks no reason given", "!badword edit shucks",
     "!badword edit", "!badword delete shucks", "!badword delete",
     "!badword", "!badword list", "!badword edit  shucks  no  reason ",
     "!uptime", "!title", "!title New title", "!game", "!game Chess",
     "!ping", "!afterstream remember this",
     "!coins", "!hi", "!deaths", "!nothing"}

ChatTexts ==
    {"oh shucks", "darn it", "x marks", "darn x", "x darn", "hello there",
     "check http://evil.com/x", "check http://example.com/x",
     "darn http://evil.com/x", "!song volume x",
     "ok https://example.com/a http://evil.com:80/b"}

Nicks == {"mod", "viewer"}

Messages ==
    {Msg("PRIVMSG", n, Full, IdTags, t) : n \in Nicks, t \in CommandTexts}
    \cup {Msg("PRIVMSG", n, ch, IdTags, t) :
            n \in Nicks, ch \in {Full, WordsChan, UrlsChan, BothChan},
            t \in ChatTexts}
    \cup {Msg("PRIVMSG", n, WordsChan, tags, t) :
            n \in Nicks, tags \in {NoTags, ValuelessId},
            t \in {"darn it", "x marks"}}
    \cup {Msg("PRIVMSG", "viewer", WordsChan, tags, "darn it") :
            tags \in {MixedTags, TwoIds}}
    \cup {Msg("PRIVMSG", "viewer", Bare, IdTags, t) :
            t \in {"!command list", "!afterstream remember this", "!uptime",
                   "!game", "!counter list", "!deaths"}}
    \cup {Msg("PRIVMSG", "mod", Bare, IdTags, t) :
            t \in {"!counter edit deaths x", "!counter list"}}
    \cup {Msg("PRIVMSG", "viewer", ch, IdTags, t) :
            ch \in {Bare, SongChan, Unknown, "bot"},
            t \in {"!song skip", "!counter edit deaths x",
                   "!badword edit shucks", "!title New title", "darn it"}}
    \cup {Msg("PRIVMSG", None, Full, IdTags, t) : t \in {"!ping", "darn it"}}
    \cup {Msg(k, "viewer", Full, NoTags, "") :
            k \in {"JOIN", "PING", "CAP ACK", "RAW", "ERR"}}

\* the messages of the stream specification: a reply, a rejected command, a
\* failing command branch, a flagged message and an undecodable one
StreamMessages ==
    {Msg("PRIVMSG", "viewer", Full, IdTags, "!ping"),
     Msg("PRIVMSG", "viewer", Full, IdTags, "!song skip"),
     Msg("PRIVMSG", "mod", Full, IdTags, "!badword edit"),
     Msg("PRIVMSG", "viewer", WordsChan, IdTags, "darn it"),
     Msg("ERR", None, None, NoTags, "")}

\* the messages of the counter specification: two counters of Full named by
\* two senders, and the name of a counter on a channel that has none
CounterMessages ==
    {Msg("PRIVMSG", "viewer", Full, IdTags, "!deaths"),
     Msg("PRIVMSG", "mod", Full, IdTags, "!deaths"),
     Msg("PRIVMSG", "viewer", Full, IdTags, "!coins"),
     Msg("PRIVMSG", "viewer", Bare, IdTags, "!deaths")}

\* the messages of the alias specification: an alias with and without the
\* prefix, an alias whose substitute is no command, the substitute itself,
\* and the alias on a channel that has no aliases and on an unconfigured one
AliasMessages ==
    {Msg("PRIVMSG", n, Full, IdTags, t) :
        n \in Nicks,
        t \in {"!louder", "turnup", "!shh", "!song volume +10", "turnup now",
               "!nothing", "hello there"}}
    \cup {Msg("PRIVMSG", "mod", ch, IdTags, t) :
            ch \in {Bare, SongChan, Unknown}, t \in {"!louder", "turnup"}}

\* the messages of the song specification: positions 0 to 3, words that are
\* no numbers, and the sender's own track, from a moderator and from a viewer
SongPositions == {"0", "1", "2", "3", "abc", "2nd"}

SongMessages ==
    {Msg("PRIVMSG", n, Full, IdTags, "!song " \o w \o " " \o t) :
        n \in Nicks, w \in {"delete", "promote"}, t \in SongPositions}
    \cup {Msg("PRIVMSG", n, Full, IdTags, "!song delete mine") : n \in Nicks}

\* the messages of the moderation specification: commands that succeed or
\* fail and carry a bad word, with and without a reason, or a bad link;
\* commands and chat that carry none; chat that carries one
ModeratedMessages ==
    {Msg("PRIVMSG", n, ch, IdTags, t) :
        n \in Nicks, ch \in {Full, BothChan},
        t \in {"!ping darn", "!ping x", "!ping http://evil.com/x",
               "!song volume x", "!afterstream darn it", "!nothing darn",
               "!ping", "darn it", "hello there"}}

\* the messages of the reserved-name specification: the reserved names on a
\* channel that has every flag, on one that has Command and Counter alone
\* and on one that has none, and the edits that give a custom command and a
\* counter a reserved name
ReservedTexts ==
    {"!song current", "!command list", "!afterstream note", "!badword list",
     "!uptime", "!title", "!game", "!ping", "!counter list"}

ReservedMessages ==
    {Msg("PRIVMSG", "viewer", ch, IdTags, t) :
        ch \in {Full, CustomChan, Bare}, t \in ReservedTexts}
    \cup {Msg("PRIVMSG", "mod", ch, IdTags, t) :
            ch \in {Full, CustomChan},
            t \in {"!command edit song custom song",
                   "!command edit ping custom ping",
                   "!counter edit title {{count}} titles",
                   "!counter edit counter {{count}} counters"}}

\* the messages of the poisoned-lock specification: readers of the cells of
\* two channels, an update that reads no cell, and a command with no cell
PoisonMessages ==
    {Msg("PRIVMSG", "viewer", ch, IdTags, t) :
        ch \in {Full, AdminChan}, t \in {"!uptime", "!title", "!game"}}
    \cup {Msg("PRIVMSG", "mod", Full, IdTags, "!title New title"),
          Msg("PRIVMSG", "viewer", Full, IdTags, "!ping")}

\* the messages of the stream-information specification: updates of title and
\* game by a moderator, and readers of the cells of two channels
InfoMessages ==
    {Msg("PRIVMSG", "mod", Full, IdTags, "!title New title"),
     Msg("PRIVMSG", "mod", Full, IdTags, "!game Chess"),
     Msg("PRIVMSG", "mod", AdminChan, IdTags, "!title Other title"),
     Msg("PRIVMSG", "viewer", Full, IdTags, "!title"),
     Msg("PRIVMSG", "viewer", Full, IdTags, "!uptime"),
     Msg("PRIVMSG", "viewer", AdminChan, IdTags, "!game")}

\* the messages of the engine specification: one that enqueues a reply, one
\* that enqueues a warning and a delete directive, one that enqueues nothing
EngineMessages ==
    {Msg("PRIVMSG", "viewer", Full, IdTags, "!song skip"),
     Msg("PRIVMSG", "viewer", WordsChan, IdTags, "darn it"),
     Msg("ERR", None, None, NoTags, "")}

\* ------------------------------------------------------------------------
\* Bounds
\* ------------------------------------------------------------------------

\* the number of inbound items a behaviour of Spec dispatches
MaxDispatches == 2

\* the stream items that may wait undispatched, and the items that arrive in
\* a behaviour of SpecEngine
MaxInbound == 2
MaxArrivals == 3

\* the sends of a behaviour of SpecSender, and those in flight at a time
MaxSends == 97
MaxPending == 3

\* the writes that may fail
MaxLost == 2

\* the calls of insert_key and delete_key in a behaviour
MaxCalls == 3

\* the events that the players emit in a behaviour
MaxEvents == 3

\* the refill intervals that elapse in a behaviour
MaxIntervals == 2

\* the ticks of each periodic loop
MaxLoopTicks == 3

\* ------------------------------------------------------------------------
\* Sender
\* ------------------------------------------------------------------------

\* ratelimit::Builder::new().frequency(10).capacity(95)
Frequency == 10
\* a bucket one token larger
Capacity_Larger == 95 + 1

Capacity == 95

\* the refill interval of the bucket, in milliseconds
IntervalMs == 1000 \div Frequency

\* the two capability requests `run` sends before anything else
CapRequests == 2

senderVars ==
    <<queued, holder, ready, tokens, clock, written, lost, send_errors>>
storeVars == <<bad_words, volume, queue, commands, counters>>
configVars == <<features, players, notify_rewards>>
streamVars ==
    <<inbound, arrivals, cur, pc, order, finished, failures, increments,
      last>>
loopVars == <<balances, stream_info, poisoned, reward_alive, info_alive,
              reward_ticks, info_ticks, fetches, tick>>

bridgeVars == <<tasks, events, announced>>
codecVars == <<codec>>
unitVars == <<units, wire>>
remoteVars == <<remote_builder, remote, bus>>
webVars == <<tree, procs>>
extVars == <<codecVars, unitVars, remoteVars, webVars>>
taskVars == <<updates, task, bridgeVars, period, extVars>>
vars == <<configVars, storeVars, streamVars, senderVars, loopVars, taskVars>>

\* thread_pool.spawn in Sender::send: n units are handed to the pool; the
\* caller does not wait for them
Spawn(n) == queued' = queued + n

\* a send that takes its tokens in the caller
CallerWaits_Blocking(n) == tokens < n

\* whether Sender::send makes its caller wait: it never does, the wait for a
\* token is inside the spawned unit
CallerWaits(n) == FALSE

\* ------------------------------------------------------------------------
\* The futures of run, joined
\* ------------------------------------------------------------------------

\* the futures pushed by run: the reward loop and the status-refresh loop of
\* the channel, the player and its event bridge, the transport's send_future
\* and the stream consumer
Futures == {"reward", "info", "player", "bridge", "send", "stream"}

\* how far a future is: a loop ends only when its for_each sees an Err; the
\* consumer ends in Err the same way, and completes when the stream ends
FutureStatus(name) ==
    CASE name = "reward" -> IF reward_alive THEN "running" ELSE "failed"
      [] name = "info" -> IF info_alive THEN "running" ELSE "failed"
      [] name = "stream" -> IF pc = "closed" THEN "failed" ELSE tasks.stream
      [] OTHER -> tasks[name]

\* future::join_all: Err as soon as one future has ended in Err, Ok when all
\* have completed
JoinAll(status) ==
    IF \E f \in DOMAIN status : status[f] = "failed" THEN "failed"
    ELSE IF \A f \in DOMAIN status : status[f] = "done" THEN "done"
    ELSE "running"

\* the future that run returns
Driver == JoinAll([f \in Futures |-> FutureStatus(f)])

\* Sender::send called by some task
Enqueue ==
    /\ queued + holder + ready + written < MaxSends
    /\ queued + holder + ready < MaxPending
    /\ ~CallerWaits(1)
    /\ Spawn(1)
    /\ UNCHANGED <<holder, ready, tokens, clock, written, lost, send_errors>>
    /\ UNCHANGED <<taskVars, configVars, storeVars, streamVars, loopVars>>

\* limiter.lock().wait(): a unit takes the mutex; with a token in the bucket
\* it takes the token and leaves, else it stays inside wait(), holding the
\* mutex, until the next token is made
UnitAcquire ==
    /\ queued > 0
    /\ holder = 0
    /\ queued' = queued - 1
    /\ IF tokens > 0
       THEN /\ tokens' = tokens - 1
            /\ ready' = ready + 1
            /\ holder' = 0
       ELSE /\ holder' = 1
            /\ UNCHANGED <<tokens, ready>>
    /\ UNCHANGED <<clock, written, lost, send_errors>>
    /\ UNCHANGED <<taskVars, configVars, storeVars, streamVars, loopVars>>

\* one refill interval elapses: a token is made; it goes to the unit inside
\* wait() when there is one, else into the bucket, up to its capacity
Refill ==
    /\ clock < MaxIntervals * IntervalMs
    /\ clock' = clock + IntervalMs
    /\ IF holder = 1
       THEN /\ holder' = 0
            /\ ready' = ready + 1
            /\ UNCHANGED tokens
       ELSE /\ tokens' = Min(Capacity, tokens + 1)
            /\ UNCHANGED <<holder, ready>>
    /\ UNCHANGED <<queued, written, lost, send_errors>>
    /\ UNCHANGED <<taskVars, configVars, storeVars, streamVars, loopVars>>

\* a unit that puts the message back on the pool when its write has failed
UnitWrite_Retry(ok) ==
    /\ ready > 0
    /\ ready' = ready - 1
    /\ IF ok
       THEN written' = written + 1 /\ UNCHANGED <<queued, lost, send_errors>>
       ELSE /\ lost < MaxLost
            /\ lost' = lost + 1
            /\ send_errors' = send_errors + 1
            /\ queued' = queued + 1
            /\ UNCHANGED written
    /\ UNCHANGED <<holder, tokens, clock>>
    /\ UNCHANGED <<taskVars, configVars, storeVars, streamVars, loopVars>>

\* client.send(m), after the mutex has been released: the message is
\* written, or the write fails, the failure is logged and the unit ends
UnitWrite(ok) ==
    /\ ready > 0
    /\ ready' = ready - 1
    /\ IF ok
       THEN written' = written + 1 /\ UNCHANGED <<lost, send_errors>>
       ELSE /\ lost < MaxLost
            /\ lost' = lost + 1
            /\ send_errors' = send_errors + 1
            /\ UNCHANGED written
    /\ UNCHANGED <<queued, holder, tokens, clock>>
    /\ UNCHANGED <<taskVars, configVars, storeVars, streamVars, loopVars>>

\* the same steps with the units told apart: a send spawns the next unit
SendOf ==
    /\ Len(units) < CapRequests + MaxPending
    /\ Spawn(1)
    /\ units' = Append(units, "queued")
    /\ UNCHANGED <<holder, ready, tokens, clock, written, lost, send_errors>>
    /\ UNCHANGED <<updates, task, bridgeVars, period, codecVars, remoteVars, webVars,
                   wire>>
    /\ UNCHANGED <<configVars, storeVars, streamVars, loopVars>>

\* unit i takes the mutex: the pool runs its units on several threads, and
\* the mutex goes to whichever asks first
UnitAcquireOf(i) ==
    /\ units[i] = "queued"
    /\ holder = 0
    /\ queued' = queued - 1
    /\ IF tokens > 0
       THEN /\ tokens' = tokens - 1
            /\ ready' = ready + 1
            /\ holder' = 0
            /\ units' = [units EXCEPT ![i] = "ready"]
       ELSE /\ holder' = 1
            /\ units' = [units EXCEPT ![i] = "waiting"]
            /\ UNCHANGED <<tokens, ready>>
    /\ UNCHANGED <<clock, written, lost, send_errors>>
    /\ UNCHANGED <<updates, task, bridgeVars, period, codecVars, remoteVars, webVars,
                   wire>>
    /\ UNCHANGED <<configVars, storeVars, streamVars, loopVars>>

\* a refill interval elapses; the unit inside wait() gets the token
RefillOf ==
    /\ clock < MaxIntervals * IntervalMs
    /\ clock' = clock + IntervalMs
    /\ IF holder = 1
       THEN /\ holder' = 0
            /\ ready' = ready + 1
            /\ units' = [i \in DOMAIN units |->
                            IF units[i] = "waiting" THEN "ready" ELSE units[i]]
            /\ UNCHANGED tokens
       ELSE /\ tokens' = Min(Capacity, tokens + 1)
            /\ UNCHANGED <<holder, ready, units>>
    /\ UNCHANGED <<queued, written, lost, send_errors>>
    /\ UNCHANGED <<updates, task, bridgeVars, period, codecVars, remoteVars, webVars,
                   wire>>
    /\ UNCHANGED <<configVars, storeVars, streamVars, loopVars>>

\* a pool that lets a unit write only after every unit spawned before it
UnitWriteOf_Fifo(i) ==
    /\ units[i] = "ready"
    /\ \A j \in 1..(i - 1) : units[j] = "written"
    /\ ready' = ready - 1
    /\ written' = written + 1
    /\ units' = [units EXCEPT ![i] = "written"]
    /\ wire' = Append(wire, i)
    /\ UNCHANGED <<queued, holder, tokens, clock, lost, send_errors>>
    /\ UNCHANGED <<updates, task, bridgeVars, period, codecVars, remoteVars, webVars>>
    /\ UNCHANGED <<configVars, storeVars, streamVars, loopVars>>

\* unit i, its token taken and the mutex released, calls client.send(m)
UnitWriteOf(i) ==
    /\ units[i] = "ready"
    /\ ready' = ready - 1
    /\ written' = written + 1
    /\ units' = [units EXCEPT ![i] = "written"]
    /\ wire' = Append(wire, i)
    /\ UNCHANGED <<queued, holder, tokens, clock, lost, send_errors>>
    /\ UNCHANGED <<updates, task, bridgeVars, period, codecVars, remoteVars, webVars>>
    /\ UNCHANGED <<configVars, storeVars, streamVars, loopVars>>

NoPeriod == [written |-> -1, clock |-> -1]

\* an observer starts a period: it notes the writes made and the time
\* elapsed so far
PeriodBegins ==
    /\ period = NoPeriod
    /\ period' = [written |-> written, clock |-> clock]
    /\ UNCHANGED <<updates, task, bridgeVars, extVars>>
    /\ UNCHANGED <<configVars, storeVars, streamVars, senderVars, loopVars>>

\* ------------------------------------------------------------------------
\* The transport stream consumer
\* ------------------------------------------------------------------------

NoItem == [seq |-> 0, m |-> Msg(None, None, None, NoTags, "")]

NoLast == [m |-> Msg(None, None, None, NoTags, ""), cmd |-> "none",
           flagged |-> FALSE, result |-> "ok", out |-> <<>>, calls |-> <<>>,
           logs |-> <<>>]

\* an item arrives on the transport stream
Arrive(m, room, most) ==
    /\ Len(inbound) < room
    /\ arrivals < most
    /\ arrivals' = arrivals + 1
    /\ inbound' = Append(inbound, [seq |-> arrivals + 1, m |-> m])
    /\ UNCHANGED <<cur, pc, order, finished, failures, increments, last>>
    /\ UNCHANGED <<taskVars, configVars, storeVars, senderVars, loopVars>>

\* the consumer takes the next item of the stream
Begin ==
    /\ pc = "poll"
    /\ inbound # <<>>
    /\ cur' = NextItem(inbound)
    /\ inbound' = SelectSeq(inbound, LAMBDA x : x # NextItem(inbound))
    /\ order' = Append(order, NextItem(inbound).seq)
    /\ pc' = "handling"
    /\ UNCHANGED <<arrivals, finished, failures, increments, last>>
    /\ UNCHANGED <<taskVars, configVars, storeVars, senderVars, loopVars>>

\* the counters of the channel of m whose increment was called and returned
\* Ok in the dispatch that ended in c
Incremented(m, c) ==
    IF \E i \in 1..Len(c.logs) :
           c.logs[i] = "failed to process command: store error"
    THEN {}
    ELSE {<<ResponseTarget(m), DropFirst(c.calls[i], 19)>> :
            i \in {j \in 1..Len(c.calls) :
                      /\ Len(c.calls[j]) > 19
                      /\ SubSeq(c.calls[j], 1, 19) = "counters.increment "}}

\* thread_pool.spawn(..) in handle_update_title and handle_update_game: the
\* updates that the dispatch of m that ended in c has spawned, each with the
\* owned copy of the user it will answer
RECURSIVE SpawnedFrom(_, _)
SpawnedFrom(m, calls) ==
    IF calls = <<>> THEN <<>>
    ELSE LET kind == IF Head(calls) = "spawn update_channel title" THEN "title"
                     ELSE IF Head(calls) = "spawn update_channel game"
                     THEN "game" ELSE None
         IN (IF kind = None THEN <<>>
             ELSE <<[kind |-> kind, name |-> SourceNickname(m),
                     target |-> ResponseTarget(m)]>>)
            \o SpawnedFrom(m, Tail(calls))

Spawned(m, c) == SpawnedFrom(m, c.calls)

\* and_then(handle) and or_else run on the item: the whole of handle(m), with
\* every collaborator call it makes and every message it enqueues
Complete(h) ==
    /\ pc = "handling"
    /\ ~CallerWaits(Len(h.c.out))
    /\ bad_words' = h.c.bw
    /\ volume' = h.c.vol
    /\ queue' = h.c.queue
    /\ commands' = h.c.cmds
    /\ counters' = h.c.ctrs
    /\ Spawn(Len(h.c.out))
    /\ last' = [m |-> cur.m, cmd |-> h.cmd, flagged |-> h.flagged,
                result |-> h.result, out |-> h.c.out, calls |-> h.c.calls,
                logs |-> h.c.logs]
    /\ finished' = finished + 1
    /\ failures' = failures + (IF h.cmd = "err" \/ cur.m.kind = "ERR" THEN 1
                               ELSE 0)
    /\ increments' =
           [k \in DOMAIN increments \cup Incremented(cur.m, h.c) |->
              (IF k \in DOMAIN increments THEN increments[k] ELSE 0)
              + (IF k \in Incremented(cur.m, h.c) THEN 1 ELSE 0)]
    /\ updates' = updates \o Spawned(cur.m, h.c)
    /\ pc' = "done"
    /\ UNCHANGED <<inbound, arrivals, cur, order>>
    /\ UNCHANGED <<holder, ready, tokens, clock, written, lost, send_errors>>
    /\ UNCHANGED <<task, bridgeVars, period, extVars, configVars, loopVars>>

\* ------------------------------------------------------------------------
\* The platform updates of !title and !game
\* ------------------------------------------------------------------------

\* the future that handle_update_title / handle_update_game has spawned for
\* the update u, run to its end: update_channel, then the reply on success;
\* or_else logs a failure
UpdateChannel(u, ok) ==
    IF ok
    THEN [out |-> <<[target |-> u.target,
                     text |-> u.name \o " -> "
                              \o (IF u.kind = "title" THEN "Title updated!"
                                  ELSE "Game updated!")]>>,
          logs |-> <<>>]
    ELSE [out |-> <<>>, logs |-> <<"failed to update " \o u.kind>>]

\* the i-th pending update completes on the thread pool, the platform having
\* accepted it or not
UpdateDone(i, ok) ==
    LET r == UpdateChannel(updates[i], ok) IN
    /\ i \in 1..Len(updates)
    /\ updates' = RemoveAt(updates, i)
    /\ Spawn(Len(r.out))
    /\ task' = [u |-> updates[i], ok |-> ok, out |-> r.out, logs |-> r.logs]
    /\ UNCHANGED <<holder, ready, tokens, clock, written, lost, send_errors>>
    /\ UNCHANGED <<bridgeVars, period, extVars, configVars, storeVars, streamVars,
                   loopVars>>

\* the and_then closure and or_else on the item in hand, under the outcomes
\* fx of the collaborators
Finish(fx) == \E h \in {OrElse(AndThenHandle(cur.m, fx))} : Complete(h)

\* the command in hand is given to Song::handle; its error is logged
SongCommand(m, fx) ==
    LET r == SongHandle(Ctx0, AsUser(m), WordsNext(WordsNew(m.text)).it, fx)
    IN  [c |-> IF r.ok THEN r.c
               ELSE Log(r.c, "failed to process command: " \o r.e),
         flagged |-> FALSE, result |-> "ok",
         cmd |-> IF r.ok THEN "ok" ELSE "err"]

FinishSong(fx) == \E h \in {SongCommand(cur.m, fx)} : Complete(h)

\* for_each(|_| Ok(())): an Ok result is dropped and the stream is polled
\* again; an Err result ends the stream future
Continue ==
    /\ pc = "done"
    /\ pc' = IF last.result = "ok" THEN "poll" ELSE "closed"
    /\ last' = NoLast
    /\ cur' = NoItem
    /\ UNCHANGED <<inbound, arrivals, order, finished, failures,
                   increments>>
    /\ UNCHANGED <<taskVars, configVars, storeVars, senderVars, loopVars>>

\* ------------------------------------------------------------------------
\* The periodic loops of channel Full
\* ------------------------------------------------------------------------

\* let reward = 10
Reward == 10

\* what the platform may answer to twitch.chatters
Chatters ==
    {[viewers |-> v, moderators |-> mo, broadcaster |-> b] :
        v \in SUBSET {"viewer"}, mo \in SUBSET {"mod"},
        b \in SUBSET {"streamer"}}

\* what the platform may answer to stream_by_id joined with channel_by_id:
\* <<title, game, started_at>>
StreamInfos == {<<"My stream", "Chess", "t0">>, <<"My stream", None, None>>}

\* db.balances_increment
BalancesIncrement(bal, users, reward) ==
    [u \in DOMAIN bal \cup users |->
        IF u \in users
        THEN (IF u \in DOMAIN bal THEN bal[u] ELSE 0) + reward
        ELSE bal[u]]

\* a reward iteration that announces before the balances are updated
RewardIteration_AnnounceFirst(chatters, outcome) ==
    LET u == chatters.viewers \cup chatters.moderators \cup chatters.broadcaster
    IN
    IF outcome = "fetch"
    THEN [result |-> "err", e |-> "fetch error", bal |-> balances, sends |-> 0,
          users |-> {}]
    ELSE IF u = {}
    THEN [result |-> "err", e |-> "no chatters to reward", bal |-> balances,
          sends |-> 0, users |-> u]
    ELSE IF outcome = "db"
    THEN [result |-> "err", e |-> "db error", bal |-> balances,
          sends |-> IF notify_rewards THEN 1 ELSE 0, users |-> u]
    ELSE [result |-> "ok", e |-> "",
          bal |-> BalancesIncrement(balances, u, Reward),
          sends |-> IF notify_rewards THEN 1 ELSE 0, users |-> u]

\* one item of the reward stream before or_else: the fetch, the check of
\* the participant set, the update of the balances and the announcement
RewardIteration(chatters, outcome) ==
    LET u == chatters.viewers \cup chatters.moderators \cup chatters.broadcaster
    IN
    IF outcome = "fetch"
    THEN [result |-> "err", e |-> "fetch error", bal |-> balances, sends |-> 0,
          users |-> {}]
    ELSE IF u = {}
    THEN [result |-> "err", e |-> "no chatters to reward", bal |-> balances,
          sends |-> 0, users |-> u]
    ELSE IF outcome = "db"
    THEN [result |-> "err", e |-> "db error", bal |-> balances, sends |-> 0,
          users |-> u]
    ELSE [result |-> "ok", e |-> "",
          bal |-> BalancesIncrement(balances, u, Reward),
          sends |-> IF notify_rewards THEN 1 ELSE 0, users |-> u]

\* a reward loop without or_else
RewardOrElse_Propagate(r) ==
    [result |-> r.result,
     logs |-> IF r.result = "err" THEN <<"failed to reward users: " \o r.e>>
              ELSE <<>>]

\* .or_else(|e| { log::error!("failed to reward users: {}", e); Ok(()) })
RewardOrElse(r) ==
    IF r.result = "err"
    THEN [result |-> "ok", logs |-> <<"failed to reward users: " \o r.e>>]
    ELSE [result |-> "ok", logs |-> <<>>]

\* one tick of reward_loop, through for_each: the loop goes on after an Ok
\* item and ends on an Err one
RewardTick(chatters, outcome) ==
    LET r == RewardIteration(chatters, outcome)
        o == RewardOrElse(r)
    IN
    /\ reward_alive
    /\ reward_ticks < MaxLoopTicks
    /\ reward_ticks' = reward_ticks + 1
    /\ fetches' = [fetches EXCEPT !.reward = @ + 1]
    /\ balances' = r.bal
    /\ Spawn(r.sends)
    /\ reward_alive' = (o.result = "ok")
    /\ tick' = [loop |-> "reward", failed |-> r.result = "err",
                logs |-> o.logs, sends |-> r.sends, users |-> r.users]
    /\ UNCHANGED <<stream_info, poisoned, info_alive, info_ticks>>
    /\ UNCHANGED <<holder, ready, tokens, clock, written, lost, send_errors>>
    /\ UNCHANGED <<taskVars, configVars, storeVars, streamVars>>

\* a refresh whose cell is one cell shared by all the channels
StreamInfoIteration_Shared(ch, info, outcome) ==
    IF outcome \in {"fetch", "channel"}
    THEN [result |-> "err", e |-> "fetch error", cells |-> stream_info]
    ELSE IF poisoned /\ ch = Full
    THEN [result |-> "err", e |-> "lock poisoned", cells |-> stream_info]
    ELSE [result |-> "ok", e |-> "",
          cells |-> [c \in DOMAIN stream_info |-> info]]

\* one item of the refresh stream of channel ch before or_else: both
\* fetches joined (outcome "fetch": stream_by_id fails, "channel":
\* channel_by_id fails), then the write of the cell of ch under its write lock
StreamInfoIteration(ch, info, outcome) ==
    IF outcome \in {"fetch", "channel"}
    THEN [result |-> "err", e |-> "fetch error", cells |-> stream_info]
    ELSE IF poisoned /\ ch = Full
    THEN [result |-> "err", e |-> "lock poisoned", cells |-> stream_info]
    ELSE [result |-> "ok", e |-> "",
          cells |-> [stream_info EXCEPT ![ch] = info]]

\* .or_else(move |e| { log::error!("failed to refresh stream info ..", e);
\* Ok(()) })
StreamInfoOrElse(r) ==
    IF r.result = "err"
    THEN [result |-> "ok",
          logs |-> <<"failed to refresh stream info for streamer: " \o r.e>>]
    ELSE [result |-> "ok", logs |-> <<>>]

\* a tick that empties the cell of ch when its refresh has failed
StreamInfoTickOf_Reset(ch, info, outcome) ==
    LET r == StreamInfoIteration(ch, info, outcome)
        o == StreamInfoOrElse(r)
    IN
    /\ info_alive
    /\ info_ticks < MaxLoopTicks
    /\ info_ticks' = info_ticks + 1
    /\ fetches' = [fetches EXCEPT !.info = @ + 1]
    /\ stream_info' = IF r.result = "err"
                     THEN [stream_info EXCEPT ![ch] = Absent]
                     ELSE r.cells
    /\ info_alive' = (o.result = "ok")
    /\ tick' = [loop |-> "info " \o ch, failed |-> r.result = "err",
                logs |-> o.logs, sends |-> 0, users |-> {}]
    /\ UNCHANGED <<balances, poisoned, reward_alive, reward_ticks>>
    /\ UNCHANGED <<taskVars, configVars, storeVars, streamVars, senderVars>>

\* one tick of the stream_info_loop of channel ch, through for_each
StreamInfoTickOf(ch, info, outcome) ==
    LET r == StreamInfoIteration(ch, info, outcome)
        o == StreamInfoOrElse(r)
    IN
    /\ info_alive
    /\ info_ticks < MaxLoopTicks
    /\ info_ticks' = info_ticks + 1
    /\ fetches' = [fetches EXCEPT !.info = @ + 1]
    /\ stream_info' = r.cells
    /\ info_alive' = (o.result = "ok")
    /\ tick' = [loop |-> "info " \o ch, failed |-> r.result = "err",
                logs |-> o.logs, sends |-> 0, users |-> {}]
    /\ UNCHANGED <<balances, poisoned, reward_alive, reward_ticks>>
    /\ UNCHANGED <<taskVars, configVars, storeVars, streamVars, senderVars>>

\* one tick of the stream_info_loop of channel Full
StreamInfoTick(info, outcome) == StreamInfoTickOf(Full, info, outcome)

\* ------------------------------------------------------------------------
\* The player, its event bridge and the transport's futures
\* ------------------------------------------------------------------------

\* player::Event: Playing with an item (requested by a user or not), Pausing,
\* Empty
PlayerEvents ==
    {[kind |-> "Playing", what |-> "songA", user |-> "viewer"],
     [kind |-> "Playing", what |-> "songB", user |-> None],
     [kind |-> "Pausing", what |-> None, user |-> None],
     [kind |-> "Empty", what |-> None, user |-> None]}

\* the message of the bridge for an event
Announcement(e) ==
    CASE e.kind = "Playing" ->
           IF e.user # None
           THEN "Now playing: " \o e.what \o ", requested by " \o e.user \o "."
           ELSE "Now playing: " \o e.what \o "."
      [] e.kind = "Pausing" -> "Pausing playback."
      [] OTHER -> "Song queue is empty (use !song request <spotify-id> to add more)."

\* a bridge for every channel that has Song, a player configured or not
HasBridge_NoPlayer(ch) ==
    ch \in DOMAIN features /\ "Song" \in features[ch]

\* whether run has set up a player and its bridge for the channel
HasBridge(ch) ==
    /\ ch \in DOMAIN features
    /\ "Song" \in features[ch]
    /\ ch \in PlayerConfigs

\* the player of channel ch emits e and the for_each of the bridge handles it
BridgeEvent(ch, e) ==
    /\ Driver = "running"
    /\ HasBridge(ch)
    /\ tasks.bridge = "running"
    /\ Len(events) < MaxEvents
    /\ events' = Append(events, [channel |-> ch, e |-> e])
    /\ announced' = Append(announced, [target |-> ch, text |-> Announcement(e)])
    /\ Spawn(1)
    /\ UNCHANGED <<updates, task, tasks, period, extVars>>
    /\ UNCHANGED <<holder, ready, tokens, clock, written, lost, send_errors>>
    /\ UNCHANGED <<configVars, storeVars, streamVars, loopVars>>

\* a future that is not a loop ends: the player's future or the feed of the
\* bridge completes or fails, the transport's send_future completes or
\* fails, the stream of the transport ends (an Err item of the stream is
\* consumed by or_else, so the consumer can only complete)
FutureEnds(name, result) ==
    /\ Driver = "running"
    /\ name \in DOMAIN tasks
    /\ tasks[name] = "running"
    /\ name = "stream" => result = "done" /\ pc = "poll" /\ inbound = <<>>
    /\ tasks' = [tasks EXCEPT ![name] = result]
    /\ UNCHANGED <<updates, task, events, announced, period, extVars>>
    /\ UNCHANGED <<configVars, storeVars, streamVars, senderVars, loopVars>>

\* ------------------------------------------------------------------------
\* The keys of the web database (web/src/db.rs).  A string is the sequence
\* of its UTF-8 bytes; a key is serialized by serde_cbor as a sequence of
\* text strings.
\* ------------------------------------------------------------------------

\* the namespaces, as bytes: "connections", "user-id-to-key",
\* "key-to-user-id", "user"
NsConnections == <<99, 111, 110, 110, 101, 99, 116, 105, 111, 110, 115>>
NsUserIdToKey ==
    <<117, 115, 101, 114, 45, 105, 100, 45, 116, 111, 45, 107, 101, 121>>
NsKeyToUserId ==
    <<107, 101, 121, 45, 116, 111, 45, 117, 115, 101, 114, 45, 105, 100>>
NsUser == <<117, 115, 101, 114>>

\* enum Key; a field that a variant does not have is the empty string
KeyOf(variant, user_id, id, key) ==
    [variant |-> variant, user_id |-> user_id, id |-> id, key |-> key]

Connection(user_id, id) == KeyOf("Connection", user_id, id, <<>>)
ConnectionsByUserId(user_id) == KeyOf("ConnectionsByUserId", user_id, <<>>, <<>>)
UserIdToKey(user_id) == KeyOf("UserIdToKey", user_id, <<>>, <<>>)
KeyToUserId(key) == KeyOf("KeyToUserId", <<>>, <<>>, key)
User(user_id) == KeyOf("User", user_id, <<>>, <<>>)

NoKey == KeyOf("none", <<>>, <<>>, <<>>)

\* serde_cbor: a text string is major type 3 with its length (in the head
\* byte below 24, in one more byte below 256) and its bytes
CborStr(str) ==
    IF Len(str) < 24 THEN <<96 + Len(str)>> \o str
    ELSE <<120, Len(str)>> \o str

\* a serializer that knows the number of elements: a definite-length array
KeySerialize_Definite(k) ==
    CASE k.variant = "Connection" ->
           <<131>> \o CborStr(NsConnections) \o CborStr(k.user_id)
               \o CborStr(k.id)
      [] k.variant = "ConnectionsByUserId" ->
           <<130>> \o CborStr(NsConnections) \o CborStr(k.user_id)
      [] k.variant = "UserIdToKey" ->
           <<130>> \o CborStr(NsUserIdToKey) \o CborStr(k.user_id)
      [] k.variant = "KeyToUserId" ->
           <<130>> \o CborStr(NsKeyToUserId) \o CborStr(k.key)
      [] OTHER -> <<130>> \o CborStr(NsUser) \o CborStr(k.user_id)

\* impl Serialize for Key: serialize_seq(None) opens an indefinite-length
\* array (0x9f), the elements follow, end() writes the break (0xff)
KeySerialize(k) ==
    CASE k.variant = "Connection" ->
           <<159>> \o CborStr(NsConnections) \o CborStr(k.user_id)
               \o CborStr(k.id) \o <<255>>
      [] k.variant = "ConnectionsByUserId" ->
           <<159>> \o CborStr(NsConnections) \o CborStr(k.user_id) \o <<255>>
      [] k.variant = "UserIdToKey" ->
           <<159>> \o CborStr(NsUserIdToKey) \o CborStr(k.user_id) \o <<255>>
      [] k.variant = "KeyToUserId" ->
           <<159>> \o CborStr(NsKeyToUserId) \o CborStr(k.key) \o <<255>>
      [] OTHER -> <<159>> \o CborStr(NsUser) \o CborStr(k.user_id) \o <<255>>

\* the text strings of an array: up to the break when n < 0, else n of
\* them; ok is FALSE when the bytes are no such array (an element that is
\* no text string is an error for next_element::<String>)
RECURSIVE CborStrings(_, _)
CborStrings(b, n) ==
    LET bad == [ok |-> FALSE, items |-> <<>>, rest |-> <<>>] IN
    IF n = 0 THEN [ok |-> TRUE, items |-> <<>>, rest |-> b]
    ELSE IF b = <<>> THEN bad
    ELSE IF n < 0 /\ b[1] = 255
    THEN [ok |-> TRUE, items |-> <<>>, rest |-> Tail(b)]
    ELSE LET short == b[1] >= 96 /\ b[1] < 120
             long == b[1] = 120 /\ Len(b) >= 2
             off == IF short THEN 1 ELSE 2
             len == IF short THEN b[1] - 96 ELSE IF long THEN b[2] ELSE 0
         IN IF ~(short \/ long) \/ Len(b) < off + len THEN bad
            ELSE LET more == CborStrings(SubSeq(b, off + len + 1, Len(b)),
                                         IF n < 0 THEN n ELSE n - 1)
                 IN IF ~more.ok THEN bad
                    ELSE [ok |-> TRUE,
                          items |-> <<SubSeq(b, off + 1, off + len)>>
                                        \o more.items,
                          rest |-> more.rest]

\* impl Deserialize for Key (KeyVisitor::visit_seq) behind
\* serde_cbor::from_slice: the array is opened, the namespace chooses the
\* variant, "connections" is a Connection when a third element follows;
\* elements or bytes left over are an error
KeyDeserialize(b) ==
    LET bad == [ok |-> FALSE, key |-> NoKey]
        head == IF b = <<>> THEN 0 ELSE b[1]
        isSeq == head = 159 \/ (head >= 128 /\ head < 152)
        parsed == IF ~isSeq THEN [ok |-> FALSE, items |-> <<>>, rest |-> <<>>]
                  ELSE CborStrings(Tail(b), IF head = 159 THEN -1 ELSE head - 128)
        items == parsed.items
        ns == IF items = <<>> THEN <<>> ELSE items[1]
    IN IF ~parsed.ok \/ parsed.rest # <<>> \/ items = <<>> THEN bad
       ELSE IF ns = NsConnections
       THEN IF Len(items) = 2
            THEN [ok |-> TRUE, key |-> ConnectionsByUserId(items[2])]
            ELSE IF Len(items) = 3
            THEN [ok |-> TRUE, key |-> Connection(items[2], items[3])]
            ELSE bad
       ELSE IF ns \in {NsKeyToUserId, NsUserIdToKey, NsUser}
       THEN IF Len(items) # 2 THEN bad
            ELSE [ok |-> TRUE,
                  key |-> IF ns = NsKeyToUserId THEN KeyToUserId(items[2])
                          ELSE IF ns = NsUserIdToKey THEN UserIdToKey(items[2])
                          ELSE User(items[2])]
       ELSE [ok |-> TRUE, key |-> KeyOf("Unsupported", ns, <<>>, <<>>)]

\* the strings that name users, connections and keys: empty, one byte, two
\* bytes of which the first is another one's whole, the test's "100292" and
\* "twitch", and one of 24 bytes
UserIds ==
    {<<>>, <<48>>, <<49>>, <<50>>, <<49, 48>>, <<49, 49>>,
     <<49, 48, 48, 50, 57, 50>>, [i \in 1..24 |-> 97]}
ConnectionIds == {<<>>, <<49>>, <<116, 119, 105, 116, 99, 104>>}

\* the keys of the five supported variants
Keys ==
    {Connection(u, i) : u \in UserIds, i \in ConnectionIds}
    \cup {ConnectionsByUserId(u) : u \in UserIds}
    \cup {UserIdToKey(u) : u \in UserIds}
    \cup {KeyToUserId(u) : u \in UserIds}
    \cup {User(u) : u \in UserIds}

NoCodec == [key |-> NoKey, bytes |-> <<>>, read |-> FALSE,
            back |-> [ok |-> FALSE, key |-> NoKey]]

\* Key::serialize of a key
Serialized(k) ==
    /\ codec' = [key |-> k, bytes |-> KeySerialize(k), read |-> FALSE,
                 back |-> [ok |-> FALSE, key |-> NoKey]]
    /\ UNCHANGED <<updates, task, bridgeVars, period, unitVars, remoteVars, webVars>>
    /\ UNCHANGED <<configVars, storeVars, streamVars, senderVars, loopVars>>

\* Key::deserialize of the bytes in hand
Deserialized ==
    /\ codec.bytes # <<>>
    /\ ~codec.read
    /\ codec' = [codec EXCEPT !.read = TRUE,
                              !.back = KeyDeserialize(codec.bytes)]
    /\ UNCHANGED <<updates, task, bridgeVars, period, unitVars, remoteVars, webVars>>
    /\ UNCHANGED <<configVars, storeVars, streamVars, senderVars, loopVars>>

\* ------------------------------------------------------------------------
\* The web database (web/src/db.rs): API keys
\* ------------------------------------------------------------------------

\* the tree before anything is stored
EmptyTree == [kb \in {} |-> <<>>]

\* no call of delete_key in progress; calls counts the calls begun and
\* revoked holds the keys that a completed call has replaced or deleted
NoProcs == [pending |-> <<>>, calls |-> 0, revoked |-> {}, step |-> "none"]

\* the users of the web service and the keys they may be given
WebUsers == {<<49>>, <<50>>}
ApiKeys == {<<97>>, <<98>>}

\* the names of the fields of struct User
FieldUserId == <<117, 115, 101, 114, 95, 105, 100>>
FieldLogin == <<108, 111, 103, 105, 110>>

\* serde_cbor::to_vec of a User: a map of its two fields
UserToVec(user_id, login) ==
    <<162>> \o CborStr(FieldUserId) \o CborStr(user_id)
        \o CborStr(FieldLogin) \o CborStr(login)

\* the result of a get: the value, or none
Some(value) == [some |-> TRUE, value |-> value]
Nothing == [some |-> FALSE, value |-> <<>>]

\* serde_cbor::from_slice::<String>: the bytes hold one text string
StringFromSlice(b) ==
    LET parsed == CborStrings(b, 1) IN
    IF parsed.ok /\ parsed.rest = <<>> THEN Some(parsed.items[1])
    ELSE Nothing

\* serde_cbor::from_slice::<User>: the user_id of the User the bytes hold
UserFromSlice(b) ==
    LET parsed == IF b # <<>> /\ b[1] = 162 THEN CborStrings(Tail(b), 4)
                  ELSE [ok |-> FALSE, items |-> <<>>, rest |-> <<>>]
    IN  IF parsed.ok /\ parsed.rest = <<>>
           /\ parsed.items[1] = FieldUserId /\ parsed.items[3] = FieldLogin
        THEN Some(parsed.items[2])
        ELSE Nothing

\* Database::get::<String>: the value stored at the key; a value that does
\* not decode is ignored
DbGet(t, key) ==
    IF KeySerialize(key) \notin DOMAIN t THEN Nothing
    ELSE StringFromSlice(t[KeySerialize(key)])

\* Database::get::<User>
DbGetUser(t, key) ==
    IF KeySerialize(key) \notin DOMAIN t THEN Nothing
    ELSE UserFromSlice(t[KeySerialize(key)])

\* Operation::Insert and Operation::Remove, as the transaction holds them
OpInsert(key, value) ==
    [op |-> "insert", key |-> KeySerialize(key), value |-> value]
OpRemove(key) == [op |-> "remove", key |-> KeySerialize(key), value |-> <<>>]

\* Transaction::commit: the operations are applied in their order, as one
\* transaction of the tree
RECURSIVE Commit(_, _)
Commit(t, ops) ==
    IF ops = <<>> THEN t
    ELSE Commit(IF Head(ops).op = "insert"
                THEN (Head(ops).key :> Head(ops).value) @@ t
                ELSE [kb \in DOMAIN t \ {Head(ops).key} |-> t[kb]],
                Tail(ops))

\* Database::get_user_by_key
GetUserByKey(t, key) ==
    IF ~DbGet(t, KeyToUserId(key)).some THEN Nothing
    ELSE DbGetUser(t, User(DbGet(t, KeyToUserId(key)).value))

\* the operations that insert_key commits
InsertKeyOps(t, user_id, key) ==
    <<OpInsert(UserIdToKey(user_id), CborStr(key)),
      OpInsert(KeyToUserId(key), CborStr(user_id))>>

WebUnchanged ==
    /\ UNCHANGED <<updates, task, bridgeVars, period, codecVars, unitVars,
                   remoteVars>>
    /\ UNCHANGED <<configVars, storeVars, streamVars, senderVars, loopVars>>

\* Database::insert_user
InsertUser(user_id) ==
    /\ KeySerialize(User(user_id)) \notin DOMAIN tree
    /\ tree' = (KeySerialize(User(user_id)) :> UserToVec(user_id, user_id))
                @@ tree
    /\ procs' = [procs EXCEPT !.step = "insert_user"]
    /\ WebUnchanged

\* Database::insert_key: the two entries are written in one transaction
InsertKey(user_id, key) ==
    LET had == DbGet(tree, UserIdToKey(user_id)) IN
    /\ procs.calls < MaxCalls
    /\ tree' = Commit(tree, InsertKeyOps(tree, user_id, key))
    /\ procs' = [procs EXCEPT
                    !.calls = @ + 1,
                    !.revoked = (IF had.some THEN @ \cup {had.value} ELSE @)
                                \ {key},
                    !.step = "insert_key"]
    /\ WebUnchanged

\* Database::delete_key, its first half: the key of the user is read,
\* outside of any transaction; without one the call is over
DeleteKeyGet(user_id) ==
    LET had == DbGet(tree, UserIdToKey(user_id)) IN
    /\ procs.calls < MaxCalls
    /\ procs' = [procs EXCEPT
                    !.calls = @ + 1,
                    !.pending = IF had.some
                                THEN Append(@, [user_id |-> user_id,
                                                key |-> had.value])
                                ELSE @,
                    !.step = "delete_key get"]
    /\ UNCHANGED tree
    /\ WebUnchanged

\* Database::delete_key, its second half: the entry of the user and the
\* entry of the key that was read are removed in one transaction
DeleteKeyCommit(i) ==
    /\ i \in 1..Len(procs.pending)
    /\ tree' = Commit(tree, <<OpRemove(UserIdToKey(procs.pending[i].user_id)),
                              OpRemove(KeyToUserId(procs.pending[i].key))>>)
    /\ procs' = [procs EXCEPT
                    !.pending = RemoveAt(@, i),
                    !.revoked = @ \cup {procs.pending[i].key},
                    !.step = "delete_key commit"]
    /\ WebUnchanged

\* ------------------------------------------------------------------------
\* The remote update loop (bot/src/api/setbac.rs)
\* ------------------------------------------------------------------------


NoReader == <<"no reader">>

\* before run: nothing built
NoBuilder == [player |-> None, enabled |-> FALSE, api_url |-> None]
NoRemote == [rx |-> NoReader, client |-> None, setbac |-> None]
NoBus == [sent |-> 0, pushed |-> 0, errors |-> 0, running |-> FALSE,
          step |-> "none"]

\* parse_url: the URL, None (with a warning) for one that does not parse
ParseUrl(url) == IF url = "not a url" THEN None ELSE url

\* what a setting or the injector may hold
PlayerValues == {None, "player"}
ApiUrlValues == {None, "not a url", "https://setbac.tv"}

\* an init that keeps the player client and the API client when disabled
RemoteBuilderInit_KeepClients(b) ==
    [rx |-> IF b.enabled THEN <<>> ELSE NoReader,
     client |-> b.player, setbac |-> b.api_url]

\* RemoteBuilder::init: the Remote of the builder b; an enabled one has a
\* new reader of the bus, which holds no event yet
RemoteBuilderInit(b) ==
    IF ~b.enabled THEN NoRemote
    ELSE [rx |-> <<>>, client |-> b.player, setbac |-> b.api_url]

RemoteUnchanged ==
    /\ UNCHANGED <<updates, task, bridgeVars, period, codecVars, unitVars,
                   webVars>>
    /\ UNCHANGED <<configVars, storeVars, streamVars, senderVars, loopVars>>

\* run, up to the loop: the builder is filled from the settings and the
\* injector, and the Remote is built
RemoteRun(player, url, enabled) ==
    /\ ~bus.running
    /\ remote_builder' = [player |-> player, enabled |-> enabled,
                          api_url |-> IF url = None THEN None ELSE ParseUrl(url)]
    /\ remote' = RemoteBuilderInit(remote_builder')
    /\ bus' = [bus EXCEPT !.running = TRUE, !.step = "run"]
    /\ RemoteUnchanged

\* the arm of player_stream
PlayerUpdated(update) ==
    /\ bus.running
    /\ remote_builder' = [remote_builder EXCEPT !.player = update]
    /\ remote' = RemoteBuilderInit(remote_builder')
    /\ bus' = [bus EXCEPT !.step = "player"]
    /\ RemoteUnchanged

\* the arm of api_url_stream
ApiUrlUpdated(update) ==
    /\ bus.running
    /\ remote_builder' =
           [remote_builder EXCEPT
               !.api_url = IF update = None THEN None ELSE ParseUrl(update)]
    /\ remote' = RemoteBuilderInit(remote_builder')
    /\ bus' = [bus EXCEPT !.step = "api-url"]
    /\ RemoteUnchanged

\* the arm of enabled_stream
EnabledUpdated(update) ==
    /\ bus.running
    /\ remote_builder' = [remote_builder EXCEPT !.enabled = update]
    /\ remote' = RemoteBuilderInit(remote_builder')
    /\ bus' = [bus EXCEPT !.step = "enabled"]
    /\ RemoteUnchanged

\* an event is sent on the global bus: every reader that exists gets it
BusSend(event) ==
    /\ bus.running
    /\ bus.sent < MaxEvents
    /\ bus' = [bus EXCEPT !.sent = @ + 1, !.step = "send"]
    /\ remote' = IF remote.rx = NoReader THEN remote
                 ELSE [remote EXCEPT !.rx = Append(@, event)]
    /\ UNCHANGED remote_builder
    /\ RemoteUnchanged

\* the arm of remote.rx: the next event of the reader; an event other than
\* SongModified, a missing API client and a missing player client go back
\* to the loop; else the update is pushed, and a failure is logged
RemoteEvent(ok) ==
    /\ bus.running
    /\ remote.rx # NoReader
    /\ remote.rx # <<>>
    /\ remote' = [remote EXCEPT !.rx = Tail(@)]
    /\ bus' = IF Head(remote.rx) # "SongModified" THEN [bus EXCEPT !.step = "skip"]
              ELSE IF remote.setbac = None THEN [bus EXCEPT !.step = "skip"]
              ELSE IF remote.client = None THEN [bus EXCEPT !.step = "skip"]
              ELSE IF ok THEN [bus EXCEPT !.pushed = @ + 1, !.step = "push"]
              ELSE [bus EXCEPT !.pushed = @ + 1, !.errors = @ + 1,
                               !.step = "push failed"]
    /\ UNCHANGED remote_builder
    /\ RemoteUnchanged

\* ------------------------------------------------------------------------
\* Specifications
\* ------------------------------------------------------------------------

NoTask == [u |-> [kind |-> None, name |-> None, target |-> None],
           ok |-> FALSE, out |-> <<>>, logs |-> <<>>]

NoTick == [loop |-> None, failed |-> FALSE, logs |-> <<>>, sends |-> 0,
           users |-> {}]

\* the state after `run` has built the sender, the loops and the handler;
\* the bucket holds `bucket` tokens
InitWith(bucket, poison, notify) ==
    /\ features = ChannelFeatures
    /\ players = ChannelPlayers
    /\ notify_rewards = notify
    /\ bad_words = ("x" :> NoWhy)
                   @@ ("darn" :> "{{name}}, mind your language in {{target}}")
    /\ volume = 50
    /\ queue = <<[what |-> "songA", user |-> "viewer"],
                 [what |-> "songB", user |-> "mod"]>>
    /\ commands = (<<Full, "hi">> :> "hello {{name}}")
                  @@ (<<Full, "coins">> :> "{{name}} counts coins")
    /\ counters = (<<Full, "deaths">> :> [count |-> 0,
                                          text |-> "{{count}} deaths"])
                  @@ (<<Full, "coins">> :> [count |-> 0,
                                            text |-> "asked {{count}} times"])
    /\ balances = ("mod" :> 30)
    /\ stream_info = [ch \in InfoChannels |-> Absent]
    /\ poisoned = poison
    /\ inbound = <<>>
    /\ arrivals = 0
    /\ cur = NoItem
    /\ pc = "poll"
    /\ order = <<>>
    /\ finished = 0
    /\ failures = 0
    /\ increments = [k \in {} |-> 0]
    /\ last = NoLast
    /\ queued = CapRequests
    /\ holder = 0
    /\ ready = 0
    /\ tokens = bucket
    /\ clock = 0
    /\ written = 0
    /\ lost = 0
    /\ send_errors = 0
    /\ reward_alive = TRUE
    /\ info_alive = TRUE
    /\ reward_ticks = 0
    /\ info_ticks = 0
    /\ fetches = [reward |-> 0, info |-> 0]
    /\ tick = NoTick
    /\ updates = <<>>
    /\ task = NoTask
    /\ tasks = [t \in {"player", "bridge", "send", "stream"} |-> "running"]
    /\ events = <<>>
    /\ announced = <<>>
    /\ period = NoPeriod
    /\ codec = NoCodec
    /\ units = [i \in 1..CapRequests |-> "queued"]
    /\ wire = <<>>
    /\ remote_builder = NoBuilder
    /\ remote = NoRemote
    /\ bus = NoBus
    /\ tree = EmptyTree
    /\ procs = NoProcs

\* The dispatch pipeline: one message at a time goes through the handler.
Init == InitWith(Capacity, FALSE, FALSE)

Next ==
    \/ \E m \in Messages : pc = "poll" /\ Arrive(m, 1, MaxDispatches)
    \/ Begin
    \/ \E fx \in Outcomes : Finish(fx)
    \/ Continue

Spec == Init /\ [][Next]_vars

\* The sender alone: any task enqueues, the units of the pool take tokens
\* and write, the bucket starts full.
InitSender == InitWith(Capacity, FALSE, FALSE)

NextSender == Enqueue \/ UnitAcquire \/ Refill \/ UnitWrite(TRUE)

SpecSender == InitSender /\ [][NextSender]_vars

\* the units of the sender told apart; the bucket is full, or earlier sends
\* have left one token in it
InitUnits == \E bucket \in {1, Capacity} : InitWith(bucket, FALSE, FALSE)

NextUnits ==
    \/ SendOf
    \/ \E i \in DOMAIN units : UnitAcquireOf(i)
    \/ RefillOf
    \/ \E i \in DOMAIN units : UnitWriteOf(i)

SpecUnits == InitUnits /\ [][NextUnits]_vars

\* the handler and the refresh loops with the lock of the cell of Full
\* poisoned or not; nothing runs on after a panic
InitPoison == \E poison \in BOOLEAN : InitWith(Capacity, poison, FALSE)

NextPoison ==
    \/ \E m \in PoisonMessages : pc = "poll" /\ Arrive(m, 1, MaxDispatches)
    \/ Begin
    \/ \E fx \in {AllOk} : Finish(fx)
    \/ Continue
    \/ \E ch \in InfoChannels, i \in StreamInfos, o \in {"ok", "fetch"} :
           pc # "closed" /\ last.result # "panic" /\ StreamInfoTickOf(ch, i, o)

SpecPoison == InitPoison /\ [][NextPoison]_vars

\* the song handler alone: commands that take a position, the player
\* answering or failing
InitSong == InitWith(Capacity, FALSE, FALSE)

NextSong ==
    \/ \E m \in SongMessages : pc = "poll" /\ Arrive(m, 1, MaxDispatches)
    \/ Begin
    \/ \E fx \in {AllOk, AllFail} : FinishSong(fx)
    \/ Continue

SpecSong == InitSong /\ [][NextSong]_vars

\* the handler on messages that are commands and carry what the filters
\* look for
InitModerated == InitWith(Capacity, FALSE, FALSE)

NextModerated ==
    \/ \E m \in ModeratedMessages : pc = "poll" /\ Arrive(m, 1, MaxDispatches)
    \/ Begin
    \/ \E fx \in Outcomes : Finish(fx)
    \/ Continue

SpecModerated == InitModerated /\ [][NextModerated]_vars

\* the handler on the reserved names, after custom commands and counters
\* have been given such names
InitReserved == InitWith(Capacity, FALSE, FALSE)

NextReserved ==
    \/ \E m \in ReservedMessages : pc = "poll" /\ Arrive(m, 1, MaxDispatches)
    \/ Begin
    \/ \E fx \in Outcomes : Finish(fx)
    \/ Continue

SpecReserved == InitReserved /\ [][NextReserved]_vars

\* the API keys of the web database: users are stored, keys are inserted
\* and deleted by calls that may overlap
InitKeys == InitWith(Capacity, FALSE, FALSE)

NextKeys ==
    \/ \E u \in WebUsers : InsertUser(u)
    \/ \E u \in WebUsers, k \in ApiKeys : InsertKey(u, k)
    \/ \E u \in WebUsers : DeleteKeyGet(u)
    \/ \E i \in 1..MaxCalls : DeleteKeyCommit(i)

SpecKeys == InitKeys /\ [][NextKeys]_vars

\* the remote update loop: the settings and the injector change, events go
\* over the bus, pushes succeed or fail
InitRemote == InitWith(Capacity, FALSE, FALSE)

NextRemote ==
    \/ \E p \in PlayerValues, u \in ApiUrlValues, e \in BOOLEAN :
           RemoteRun(p, u, e)
    \/ \E p \in PlayerValues : PlayerUpdated(p)
    \/ \E u \in ApiUrlValues : ApiUrlUpdated(u)
    \/ \E e \in BOOLEAN : EnabledUpdated(e)
    \/ \E ev \in {"SongModified", "Other"} : BusSend(ev)
    \/ \E ok \in BOOLEAN : RemoteEvent(ok)

SpecRemote == InitRemote /\ [][NextRemote]_vars

\* the codec of the keys: a key is serialized, its bytes are deserialized
InitCodec == InitWith(Capacity, FALSE, FALSE)

NextCodec == (\E k \in Keys : Serialized(k)) \/ Deserialized

SpecCodec == InitCodec /\ [][NextCodec]_vars

\* the sender, and a period that begins at any moment
InitPeriod == InitWith(Capacity, FALSE, FALSE)

NextPeriod == NextSender \/ PeriodBegins

SpecPeriod == InitPeriod /\ [][NextPeriod]_vars

\* The stream consumer alone, with items waiting on the stream.
InitStream == InitWith(Capacity, FALSE, FALSE)

NextStream ==
    \/ \E m \in StreamMessages : Arrive(m, MaxInbound, MaxArrivals)
    \/ Begin
    \/ \E fx \in Outcomes : Finish(fx)
    \/ Continue

SpecStream == InitStream /\ [][NextStream]_vars

\* the consumer is polled whenever it can make a step, and handle, a
\* synchronous call, returns: no dispatch stays in progress for ever
SpecStreamFair ==
    /\ SpecStream
    /\ WF_vars(Begin)
    /\ WF_vars(Continue)
    /\ []<>(pc # "handling")

\* The engine: the stream consumer together with the units of the sender.
\* The bucket is full, or empty as a burst of Capacity sends leaves it.
InitEngine == \E bucket \in {0, Capacity} : InitWith(bucket, FALSE, FALSE)

NextEngine ==
    \/ \E m \in EngineMessages : Arrive(m, MaxInbound, MaxArrivals)
    \/ Begin
    \/ \E fx \in Outcomes : Finish(fx)
    \/ Continue
    \/ UnitAcquire
    \/ Refill
    \/ UnitWrite(TRUE)

SpecEngine == InitEngine /\ [][NextEngine]_vars

\* The sender with a transport that may refuse a message.
InitDelivery == InitWith(Capacity, FALSE, FALSE)

NextDelivery ==
    \/ Enqueue
    \/ UnitAcquire
    \/ Refill
    \/ \E ok \in BOOLEAN : UnitWrite(ok)

SpecDelivery == InitDelivery /\ [][NextDelivery]_vars

\* The consumer with messages that hit counters, from two senders and on
\* two channels, in any order of arrival.
InitCounter == InitWith(Capacity, FALSE, FALSE)

NextCounter ==
    \/ \E m \in CounterMessages : Arrive(m, MaxInbound, MaxArrivals)
    \/ Begin
    \/ \E fx \in Outcomes : Finish(fx)
    \/ Continue

SpecCounter == InitCounter /\ [][NextCounter]_vars

\* The stream information: the consumer with the commands that read and
\* update title and game, the updates spawned on the thread pool, and the
\* status-refresh loops of the channels that have a streamer.
InitInfo == InitWith(Capacity, FALSE, FALSE)

NextInfo ==
    \/ \E m \in InfoMessages : pc = "poll" /\ Arrive(m, 1, MaxDispatches)
    \/ Begin
    \/ \E fx \in {AllOk} : Finish(fx)
    \/ Continue
    \/ \E i \in 1..Len(updates), ok \in BOOLEAN : UpdateDone(i, ok)
    \/ \E ch \in InfoChannels, i \in StreamInfos,
          o \in {"ok", "fetch", "channel"} :
           StreamInfoTickOf(ch, i, o)

SpecInfo == InitInfo /\ [][NextInfo]_vars

\* The periodic loops of channel Full.
InitLoops == \E poison \in BOOLEAN, notify \in BOOLEAN :
                 InitWith(Capacity, poison, notify)

NextLoops ==
    \/ \E ch \in Chatters, o \in {"ok", "fetch", "db"} : RewardTick(ch, o)
    \/ \E i \in StreamInfos, o \in {"ok", "fetch"} : StreamInfoTick(i, o)

SpecLoops == InitLoops /\ [][NextLoops]_vars

\* the handler on messages that name aliases
InitAlias == InitWith(Capacity, FALSE, FALSE)

NextAlias ==
    \/ \E m \in AliasMessages : pc = "poll" /\ Arrive(m, 1, MaxDispatches)
    \/ Begin
    \/ \E fx \in {AllOk} : Finish(fx)
    \/ Continue

SpecAlias == InitAlias /\ [][NextAlias]_vars

\* the futures of run: the loops tick, the player emits events, and the
\* futures that can end do so; nothing is polled once the joined future has
\* ended
InitDriver == InitWith(Capacity, FALSE, FALSE)

NextDriver ==
    \/ \E ch \in {c \in Chatters : c.viewers # {} /\ c.moderators = {}
                                   /\ c.broadcaster = {}},
          o \in {"ok", "fetch"} : Driver = "running" /\ RewardTick(ch, o)
    \/ \E i \in {<<"My stream", "Chess", "t0">>}, o \in {"ok"} :
           Driver = "running" /\ StreamInfoTick(i, o)
    \/ \E ch \in DOMAIN ChannelFeatures, e \in PlayerEvents :
           e.kind = "Pausing" /\ BridgeEvent(ch, e)
    \/ \E f \in Futures, r \in {"done", "failed"} : FutureEnds(f, r)

SpecDriver == InitDriver /\ [][NextDriver]_vars

\* the players emit events, the bridge announces them and the units of the
\* sender write the announcements
InitBridge == InitWith(Capacity, FALSE, FALSE)

NextBridge ==
    \/ \E ch \in DOMAIN ChannelFeatures, e \in PlayerEvents : BridgeEvent(ch, e)
    \/ UnitAcquire
    \/ UnitWrite(TRUE)

SpecBridge == InitBridge /\ [][NextBridge]_vars

\* the timers of the two loops keep firing; the platform answers with no
\* participant or with one viewer
NextLoopsFair ==
    \/ \E ch \in {c \in Chatters : c.moderators = {} /\ c.broadcaster = {}},
          o \in {"ok", "fetch", "db"} : RewardTick(ch, o)
    \/ \E i \in StreamInfos, o \in {"ok", "fetch"} : StreamInfoTick(i, o)

SpecLoopsFair ==
    /\ InitLoops
    /\ [][NextLoopsFair]_vars
    /\ WF_vars(\E ch \in {c \in Chatters : c.moderators = {}
                                            /\ c.broadcaster = {}},
                   o \in {"ok", "fetch", "db"} : RewardTick(ch, o))
    /\ WF_vars(\E i \in StreamInfos, o \in {"ok", "fetch"} :
                   StreamInfoTick(i, o))

\* ------------------------------------------------------------------------
\* Properties
\* ------------------------------------------------------------------------

\* the words of a message as the handler sees them, an alias resolved
CommandWords(m) ==
    LET ws == WordList(m.text) IN
    IF ws # <<>> /\ ResponseTarget(m) = Full /\ ws[1] \in DOMAIN Aliases
    THEN WordList(Aliases[ws[1]])
    ELSE ws

\* the number of messages of out with the given text
Count(out, text) == Cardinality({i \in 1..Len(out) : out[i].text = text})

IsDeleteDirective(o) == Len(o.text) >= 8 /\ SubSeq(o.text, 1, 8) = "/delete "

\* the warning a stored reason renders to: the one reason of the store that
\* has placeholders is the one of "darn"
WarningText(word, nick, target) ==
    IF word = "darn" THEN nick \o ", mind your language in " \o target
    ELSE bad_words[word]

IsWarning(o, m) ==
    \E w \in DOMAIN bad_words :
        bad_words[w] # NoWhy /\ o.text = WarningText(w, m.nick, o.target)

\* a dispatch of a message of a moderator has just completed
ModeratorDispatch ==
    pc = "done" /\ last.m.kind = "PRIVMSG" /\ last.m.nick \in Moderators

\* C1: a message whose sender is a moderator is never flagged, whatever its
\* text and the features of the channel: should_be_deleted is false, no
\* delete directive is enqueued and no bad-word warning is enqueued.
C1_ModeratorExempt ==
    ModeratorDispatch =>
        /\ ~last.flagged
        /\ \A i \in 1..Len(last.out) :
               /\ ~IsDeleteDirective(last.out[i])
               /\ ~IsWarning(last.out[i], last.m)

\* a moderator has sent a bad word and a bad link to a channel that has both
\* filters, and the message went through
C1_Witness ==
    /\ ModeratorDispatch
    /\ last.m.text = "darn http://evil.com/x"
    /\ last.m.to = BothChan
    /\ ~last.flagged
    /\ last.out = <<>>

\* C2: with a bucket of 95 tokens that starts full and is refilled at 10
\* tokens a second, the units of the first 95 sends never wait inside the
\* limiter, and the 96th message is not written before one refill interval
\* (100 ms) has elapsed.
C2_Burst ==
    /\ holder = 1 => ready + written >= 95
    /\ written >= 96 => clock >= 100
    /\ ready + written <= 95 + (clock \div 100)

\* the 96th message has been written, one interval after the start
C2_Witness == written = 96 /\ clock = 100

\* the bucket is empty and sends are pending in the pool
Starved == tokens = 0 /\ queued + holder > 0

\* C3: send returns without waiting for a token: while the bucket is empty
\* and units are pending or suspended inside the limiter, the consumer can
\* finish the dispatch it is in, whatever it sends, and begin the next one.
C3_SendDoesNotBlock ==
    Starved =>
        /\ pc = "handling" =>
               \A fx \in Outcomes :
                   \E h \in {OrElse(AndThenHandle(cur.m, fx))} :
                       ENABLED Complete(h)
        /\ pc = "done" => ENABLED Continue
        /\ (pc = "poll" /\ inbound # <<>>) => ENABLED Begin

\* a unit is suspended inside the limiter, the bucket is empty, earlier
\* dispatches have enqueued more, and the consumer is in its next dispatch
C3_Witness ==
    /\ tokens = 0
    /\ holder = 1
    /\ clock = 0
    /\ queued >= CapRequests
    /\ finished >= 1
    /\ pc = "handling"
    /\ cur.m.text = "!song skip"

\* C4: one consumer takes the inbound messages in their order of arrival, one
\* at a time: the i-th dispatch is of the i-th arrival, and a dispatch begins
\* only when the one before it has completed.
C4_InOrder ==
    /\ order = [i \in 1..Len(order) |-> i]
    /\ Len(order) - finished \in {0, 1}
    /\ pc = "handling" <=> Len(order) - finished = 1
    /\ pc = "handling" => cur.seq = Len(order)
    /\ \A i \in 1..Len(inbound) : inbound[i].seq = Len(order) + i

\* the second dispatch is under way, the first has completed and a third
\* message waits
C4_Witness ==
    /\ pc = "handling"
    /\ Len(order) = 2
    /\ finished = 1
    /\ inbound # <<>>

\* the dispatch that has just completed met an error
FailedDispatch ==
    pc = "done" /\ (last.cmd = "err" \/ last.m.kind = "ERR")

\* C5: an error in the handling of one message is logged and does not end the
\* consumer: the stream is never closed, and every message that arrives is
\* dispatched to the end.
C5_ErrorsDoNotStop ==
    /\ [](pc # "closed")
    /\ [](FailedDispatch => last.logs # <<>> /\ last.result = "ok")
    /\ \A i \in 1..MaxArrivals : (arrivals >= i) ~> (finished >= i)

\* a dispatch has completed without an error after one that met an error
C5_Witness ==
    /\ pc = "done"
    /\ failures >= 1
    /\ last.cmd = "ok"
    /\ last.m.kind = "PRIVMSG"
    /\ finished = MaxArrivals

\* C6: a failed tick of the reward loop or of the refresh loop is logged, is
\* not retried (one fetch a tick) and does not end the loop: the next tick
\* runs.
C6_LoopsSurvive ==
    /\ [](reward_alive /\ info_alive)
    /\ [](fetches.reward = reward_ticks /\ fetches.info = info_ticks)
    /\ [](tick.failed => tick.logs # <<>>)
    /\ \A k \in 0..(MaxLoopTicks - 1) :
           /\ (reward_ticks = k) ~> (reward_ticks = k + 1)
           /\ (info_ticks = k) ~> (info_ticks = k + 1)

\* every tick of the reward loop has failed, no balance has changed, and the
\* loop has gone on to its last tick; the refresh loop has met a poisoned
\* lock and gone on as well
C6_Witness ==
    /\ tick.loop = "reward"
    /\ tick.failed
    /\ reward_ticks = MaxLoopTicks
    /\ balances = ("mod" :> 30)
    /\ poisoned
    /\ info_ticks >= 2

\* the command is routed to its handler on the channel of the message
Routed(m, ws) ==
    LET target == ResponseTarget(m) IN
    CASE ws[1] = "!song" ->
             "Song" \in FeaturesOf(target) /\ target \in ChannelPlayers
      [] ws[1] = "!command" -> "Command" \in FeaturesOf(target)
      [] ws[1] = "!badword" -> "BadWords" \in FeaturesOf(target)
      [] ws[1] \in {"!title", "!game"} -> "Admin" \in FeaturesOf(target)
      [] OTHER -> TRUE

\* the words name an action reserved to moderators
GatedWords(ws) ==
    /\ Len(ws) >= 2
    /\ \/ /\ ws[1] = "!song"
          /\ \/ ws[2] \in {"skip", "toggle", "play", "pause"}
             \/ ws[2] \in {"volume", "list"} /\ Len(ws) >= 3
             \/ ws[2] = "delete" /\ Len(ws) >= 3 /\ ws[3] = "last"
       \/ ws[1] \in {"!command", "!counter", "!badword"}
          /\ ws[2] \in {"edit", "delete"}
       \/ ws[1] \in {"!title", "!game"}

\* a known sender who is no moderator asks for a reserved action
GatedRequest(m) ==
    /\ m.kind = "PRIVMSG"
    /\ m.nick # None
    /\ m.nick \notin Moderators
    /\ GatedWords(CommandWords(m))
    /\ Routed(m, CommandWords(m))

RECURSIVE AllDigits(_)
AllDigits(s) == s = "" \/ (CharAt(s, 1) \in
                   {"0", "1", "2", "3", "4", "5", "6", "7", "8", "9"}
                   /\ AllDigits(DropFirst(s, 1)))

\* the digits of a volume argument, after its sign
ArgDigits(arg) ==
    IF arg # "" /\ CharAt(arg, 1) \in {"+", "-"} THEN DropFirst(arg, 1)
    ELSE arg

\* the argument is a whole number of at most nine digits, signed or not
SmallNumber(arg) ==
    /\ ArgDigits(arg) # ""
    /\ Len(ArgDigits(arg)) <= 9
    /\ AllDigits(ArgDigits(arg))

RECURSIVE DecVal(_)
DecVal(s) ==
    IF s = "" THEN 0
    ELSE 10 * DecVal(SubSeq(s, 1, Len(s) - 1))
         + (CHOOSE d \in 0..9 : DecStr(d) = CharAt(s, Len(s)))

\* the volume the specification gives for argument arg at volume v
ExpectedVolume(v, arg) ==
    LET n == DecVal(ArgDigits(arg)) IN
    CASE CharAt(arg, 1) = "+" -> IF v + n > 100 THEN 100 ELSE v + n
      [] CharAt(arg, 1) = "-" -> IF n > v THEN 0 ELSE v - n
      [] OTHER -> IF n > 100 THEN 100 ELSE n

\* the largest u32 as its argument: the sum and the difference saturate
ExpectedAtLimit(v, arg) ==
    CASE arg = "+4294967295" -> 100
      [] arg = "-4294967295" -> 0
      [] OTHER -> 100

VolumeArg(m) == CommandWords(m)[3]

\* a moderator sets the volume with a number, where there is a player
VolumeRequest(m) ==
    /\ m.kind = "PRIVMSG"
    /\ m.nick \in Moderators
    /\ ResponseTarget(m) \in ChannelPlayers
    /\ "Song" \in FeaturesOf(ResponseTarget(m))
    /\ Len(CommandWords(m)) >= 3
    /\ CommandWords(m)[1] = "!song"
    /\ CommandWords(m)[2] = "volume"
    /\ \/ SmallNumber(VolumeArg(m))
       \/ VolumeArg(m) \in {"+4294967295", "-4294967295", "4294967295"}

\* C8: !song volume from a moderator: +n gives min(100, v + n), -n gives
\* v - n or 0 when n exceeds v, n alone gives min(100, n); the sum and the
\* difference saturate; the value handed to the player is in 0..100 and is the
\* value of the reply.
C8_Volume ==
    [][(pc = "handling" /\ pc' = "done" /\ VolumeRequest(cur.m)) =>
          LET arg == VolumeArg(cur.m)
              e == IF SmallNumber(arg) THEN ExpectedVolume(volume, arg)
                   ELSE ExpectedAtLimit(volume, arg)
          IN  /\ e \in 0..100
              /\ last'.out = <<[target |-> ResponseTarget(cur.m),
                                text |-> cur.m.nick \o " -> Volume set to "
                                             \o DecStr(e) \o "."]>>
              /\ last'.calls = <<"player.volume " \o DecStr(e)>>
              /\ volume' \in {volume, e}
              /\ last'.cmd = "ok" => volume' = e]_vars

\* at volume 50 a moderator has asked for +10: the reply and the player have 60
C8_Witness ==
    /\ pc = "done"
    /\ last.m.nick = "mod"
    /\ last.m.text = "!song volume +10"
    /\ last.cmd = "ok"
    /\ last.out[1].text = "mod -> Volume set to 60."
    /\ last.calls = <<"player.volume 60">>
    /\ volume = 60

\* r is the part of text from position i on
SuffixAt(text, i) == SubSeq(text, i, Len(text))

\* r is the remainder of text after its first three words, as it stands
IsRemainder(r, text) ==
    LET ws == WordList(text) IN
    \E i \in 1..Len(text) :
        /\ r = SuffixAt(text, i)
        /\ ~IsWhitespace(CharAt(text, i))
        /\ IsWhitespace(CharAt(text, i - 1))
        /\ WordList(SuffixAt(text, i)) = SubSeq(ws, 4, Len(ws))

\* a moderator edits a bad word on a channel that has the filter
BadWordEdit(m) ==
    /\ m.kind = "PRIVMSG"
    /\ m.nick \in Moderators
    /\ "BadWords" \in FeaturesOf(ResponseTarget(m))
    /\ Len(WordList(m.text)) >= 3
    /\ WordList(m.text)[1] = "!badword"
    /\ WordList(m.text)[2] = "edit"

\* C9: !badword edit <word> <rest> from a moderator stores the entry <word>
\* with the remainder of the line as its reason, or with no reason when the
\* remainder is empty, and then replies "Bad word edited"; the reply is sent
\* only when the edit has succeeded.
C9_BadWordEdit ==
    [][(pc = "handling" /\ pc' = "done" /\ BadWordEdit(cur.m)) =>
          LET ws == WordList(cur.m.text)
              reply == cur.m.nick \o " -> Bad word edited"
          IN  /\ last'.calls = <<"bad_words.edit">>
              /\ IF last'.cmd = "ok"
                 THEN /\ ws[3] \in DOMAIN bad_words'
                      /\ IF Len(ws) = 3
                         THEN bad_words'[ws[3]] = NoWhy
                         ELSE IsRemainder(bad_words'[ws[3]], cur.m.text)
                      /\ \A w \in DOMAIN bad_words' \ {ws[3]} :
                             w \in DOMAIN bad_words
                             /\ bad_words'[w] = bad_words[w]
                      /\ last'.out = <<[target |-> ResponseTarget(cur.m),
                                        text |-> reply]>>
                 ELSE /\ bad_words' = bad_words
                      /\ last'.out = <<>>]_vars

\* a moderator has given "shucks" a reason with its spaces, and been answered
C9_Witness ==
    /\ pc = "done"
    /\ last.m.text = "!badword edit  shucks  no  reason "
    /\ last.cmd = "ok"
    /\ "shucks" \in DOMAIN bad_words
    /\ bad_words["shucks"] = "no  reason "
    /\ last.out[1].text = "mod -> Bad word edited"

\* the words of a chat message as the filter sees them
FilterWords(text) == TrimmedWords(text)

\* the first word of the message that is a stored bad word, None without one
FirstBadWord(text) ==
    LET ws == FilterWords(text)
        hits == {i \in 1..Len(ws) : ws[i] \in DOMAIN bad_words}
    IN  IF hits = {} THEN None
        ELSE ws[CHOOSE i \in hits : \A j \in hits : i <= j]

\* a dispatch of a chat message with a bad word, from a sender who is no
\* moderator, on a channel that has the filter, has just completed
BadWordDispatch ==
    /\ pc = "done"
    /\ last.m.kind = "PRIVMSG"
    /\ last.m.nick \notin Moderators
    /\ "BadWords" \in FeaturesOf(ResponseTarget(last.m))
    /\ FirstBadWord(last.m.text) # None

\* the warnings of the dispatch for the first bad word of its message
Warnings ==
    Count(last.out, WarningText(FirstBadWord(last.m.text), last.m.nick,
                                ResponseTarget(last.m)))

\* the statement as the specification has it: a reason, a known sender and a
\* known target give one warning
C10_AlwaysWarned ==
    BadWordDispatch =>
        LET w == FirstBadWord(last.m.text) IN
        /\ last.flagged
        /\ IF bad_words[w] = NoWhy
           THEN \A i \in 1..Len(last.out) : ~IsWarning(last.out[i], last.m)
           ELSE last.m.nick # None => Warnings = 1

\* C10: on a channel with the bad-word filter, a message of a sender who is
\* no moderator is flagged by the first of its words that is a bad word, and
\* only that one: without a reason no warning is enqueued; with a reason and
\* a known sender one warning is enqueued when the reason renders, and when it
\* does not render the failure is logged and no warning is enqueued.
C10_FirstBadWord ==
    BadWordDispatch =>
        LET w == FirstBadWord(last.m.text)
            unrendered == \E i \in 1..Len(last.logs) :
                              last.logs[i] = "failed to render response"
        IN
        /\ last.flagged
        /\ IF bad_words[w] = NoWhy
           THEN \A i \in 1..Len(last.out) : ~IsWarning(last.out[i], last.m)
           ELSE last.m.nick # None =>
                    \/ Warnings = 1 /\ ~unrendered
                    \/ Warnings = 0 /\ unrendered
                       /\ \A i \in 1..Len(last.out) :
                              ~IsWarning(last.out[i], last.m)

\* "darn x": the first bad word has a reason, the second has none; the viewer
\* has been warned once and the message is flagged
C10_Witness ==
    /\ BadWordDispatch
    /\ last.m.text = "darn x"
    /\ last.m.nick = "viewer"
    /\ last.m.to = WordsChan
    /\ last.flagged
    /\ last.out[1].text = "viewer, mind your language in #words"

\* the messages of the model that hold a URL whose host is not example.com
OffListTexts ==
    {"check http://evil.com/x", "darn http://evil.com/x",
     "ok https://example.com/a http://evil.com:80/b"}

\* a dispatch of a message of a sender who is no moderator has just completed
\* on a channel that has the URL whitelist
UrlDispatch ==
    /\ pc = "done"
    /\ last.m.kind = "PRIVMSG"
    /\ last.m.nick \notin Moderators
    /\ "UrlWhitelist" \in FeaturesOf(ResponseTarget(last.m))

\* the bad-word filter of the channel has matched the message
BadWordMatched ==
    /\ "BadWords" \in FeaturesOf(ResponseTarget(last.m))
    /\ FirstBadWord(last.m.text) # None

NoWarning == \A i \in 1..Len(last.out) : ~IsWarning(last.out[i], last.m)

\* the statement as the specification has it: with the whitelist enabled a
\* message is flagged exactly when it holds a URL off the list
C11_OnlyBadLinks ==
    UrlDispatch =>
        /\ last.flagged <=> last.m.text \in OffListTexts
        /\ ~BadWordMatched => NoWarning

\* C11: on a channel with the URL whitelist, a message of a sender who is no
\* moderator that the bad-word filter has not matched is flagged exactly when
\* it holds a URL whose host is off the whitelist, and no warning is enqueued
\* for it; a message that the bad-word filter of the channel has matched is
\* flagged whatever its URLs.
C11_UrlWhitelist ==
    UrlDispatch =>
        /\ ~BadWordMatched =>
               /\ last.flagged <=> last.m.text \in OffListTexts
               /\ NoWarning
        /\ BadWordMatched => last.flagged

\* a viewer has sent a link to evil.com to the channel with the whitelist
\* alone: the message is flagged and the delete directive is all that is sent
C11_Witness ==
    /\ UrlDispatch
    /\ last.m.to = UrlsChan
    /\ last.m.text = "check http://evil.com/x"
    /\ last.flagged
    /\ last.out = <<[target |-> UrlsChan, text |-> "/delete id1"]>>

HasPrefix(s, prefix) ==
    Len(s) >= Len(prefix) /\ SubSeq(s, 1, Len(prefix)) = prefix

\* a known sender names the currency of channel Full as a command
CurrencyQuery(m) ==
    /\ m.kind = "PRIVMSG"
    /\ m.nick # None
    /\ ResponseTarget(m) = Full
    /\ CommandWords(m) # <<>>
    /\ CommandWords(m)[1] = "!coins"

\* C12: the command that is the currency name of the channel is answered
\* with the balance of the sender: exactly 0 when the sender has no balance
\* record, the recorded balance when there is one.
C12_Balance ==
    [][(pc = "handling" /\ pc' = "done" /\ CurrencyQuery(cur.m)) =>
          LET reply == IF cur.m.nick \in DOMAIN balances
                       THEN cur.m.nick \o " -> You have "
                            \o DecStr(balances[cur.m.nick]) \o " coins."
                       ELSE cur.m.nick \o " -> You have 0 coins."
          IN  \/ /\ last'.out # <<>>
                 /\ last'.out[1] = [target |-> Full, text |-> reply]
                 /\ \A i \in 2..Len(last'.out) :
                        ~HasPrefix(last'.out[i].text,
                                   cur.m.nick \o " -> You have ")
              \/ /\ last'.out = <<>>
                 /\ last'.cmd = "err"]_vars

\* a viewer without a record has been told 0, while the record of the
\* moderator is 30
C12_Witness ==
    /\ pc = "done"
    /\ last.m.nick = "viewer"
    /\ last.m.text = "!coins"
    /\ "viewer" \notin DOMAIN balances
    /\ balances["mod"] = 30
    /\ last.out # <<>>
    /\ last.out[1].text = "viewer -> You have 0 coins."

\* the increments recorded for a counter
IncrementsOf(key) == IF key \in DOMAIN increments THEN increments[key] ELSE 0

\* the reply of a counter of Full at count n
CounterText(name, n) ==
    IF name = "deaths" THEN DecStr(n) \o " deaths"
    ELSE "asked " \o DecStr(n) \o " times"

\* a known sender names a counter of Full as a command
CounterHit(m) ==
    /\ m.kind = "PRIVMSG"
    /\ m.nick # None
    /\ ResponseTarget(m) = Full
    /\ m.text \in {"!deaths", "!coins"}
    /\ <<Full, DropFirst(m.text, 1)>> \in DOMAIN counters

\* C13: no increment of a counter is lost: the count of a counter is its
\* first value 0 plus the number of dispatches whose increment of it has
\* succeeded, in whatever order the messages arrive; the count never
\* decreases; and each reply bears the count as it is after the increment of
\* its own dispatch.
C13_NoLostIncrement ==
    /\ [](\A key \in DOMAIN counters :
              counters[key].count = IncrementsOf(key))
    /\ [][\A key \in DOMAIN counters :
              /\ key \in DOMAIN counters'
              /\ counters'[key].count >= counters[key].count]_vars
    /\ [][(pc = "handling" /\ pc' = "done" /\ CounterHit(cur.m)
           /\ last'.cmd = "ok") =>
             LET key == <<Full, DropFirst(cur.m.text, 1)>> IN
             /\ counters'[key].count = counters[key].count + 1
             /\ last'.out # <<>>
             /\ last'.out[Len(last'.out)] =
                    [target |-> Full,
                     text |-> CounterText(key[2], counters'[key].count)]]_vars

\* three dispatches have named the counter deaths; the last one, of the
\* moderator, has been answered with the count 3
C13_Witness ==
    /\ pc = "done"
    /\ finished = 3
    /\ counters[<<Full, "deaths">>].count = 3
    /\ IncrementsOf(<<Full, "deaths">>) = 3
    /\ last.m.nick = "mod"
    /\ last.out # <<>>
    /\ last.out[Len(last.out)].text = "3 deaths"

\* the names a message may have as its reply target
TargetNames ==
    {Full, WordsChan, UrlsChan, BothChan, SongChan, Bare, Direct, Unknown,
     AdminChan,
     "bot", "mod", ""}

\* the commands that reach a built-in handler only with a feature
GatedCommands ==
    {"!song", "!command", "!afterstream", "!badword", "!uptime", "!title",
     "!game"}

\* C14: the registry of features gives the configured set for a configured
\* channel and the empty set for any other name, never an error, and it is
\* never changed once the handler is built: a message on a channel that is
\* not registered is handled with no feature at all.
C14_Features ==
    /\ features = ChannelFeatures
    /\ \A ch \in TargetNames :
           FeaturesOf(ch) = IF ch \in DOMAIN ChannelFeatures
                            THEN ChannelFeatures[ch] ELSE {}
    /\ (pc = "done" /\ last.m.kind = "PRIVMSG"
        /\ ResponseTarget(last.m) \notin DOMAIN ChannelFeatures) =>
           /\ last.result = "ok"
           /\ ~last.flagged
           /\ (WordList(last.m.text) # <<>>
               /\ WordList(last.m.text)[1] \in GatedCommands) =>
                  last.out = <<>> /\ last.calls = <<>> /\ last.cmd = "ok"

\* a bad word has been sent to a channel that is not registered: the message
\* went through without a filter
C14_Witness ==
    /\ pc = "done"
    /\ last.m.to = Unknown
    /\ Unknown \notin DOMAIN features
    /\ last.m.text = "darn it"
    /\ ~last.flagged
    /\ last.result = "ok"
    /\ last.out = <<>>

\* a known sender sends a token that is no built-in command
FallbackToken(m) ==
    /\ m.kind = "PRIVMSG"
    /\ m.nick # None
    /\ m.text \in {"!coins", "!hi", "!deaths", "!nothing"}

\* the text of a stored custom command of the model for a sender
CommandText(template, nick) ==
    IF template = "hello {{name}}" THEN "hello " \o nick
    ELSE IF template = "{{name}} counts coins" THEN nick \o " counts coins"
    ELSE template

\* the replies the three lookups give for the token of m, in their order,
\* when each of them succeeds
FallbackReplies(m) ==
    LET target == ResponseTarget(m)
        name == DropFirst(m.text, 1)
        key == <<target, name>>
        feats == IF target \in DOMAIN ChannelFeatures
                 THEN ChannelFeatures[target] ELSE {}
    IN  (IF target = Full /\ name = "coins"
         THEN <<[target |-> target,
                 text |-> m.nick \o " -> You have "
                          \o (IF m.nick \in DOMAIN balances
                              THEN DecStr(balances[m.nick]) ELSE "0")
                          \o " coins."]>>
         ELSE <<>>)
        \o (IF "Command" \in feats /\ key \in DOMAIN commands
            THEN <<[target |-> target,
                    text |-> CommandText(commands[key], m.nick)]>>
            ELSE <<>>)
        \o (IF "Counter" \in feats /\ key \in DOMAIN counters
            THEN <<[target |-> target,
                    text |-> CounterText(name, counters[key].count + 1)]>>
            ELSE <<>>)

\* the counter lookup applies to the token of m
CounterApplies(m) ==
    /\ ResponseTarget(m) \in DOMAIN ChannelFeatures
    /\ "Counter" \in ChannelFeatures[ResponseTarget(m)]
    /\ <<ResponseTarget(m), DropFirst(m.text, 1)>> \in DOMAIN counters

IsPrefix(p, q) == Len(p) <= Len(q) /\ SubSeq(q, 1, Len(p)) = p

\* C15: for a token that is no built-in the lookups are made in the order
\* currency, custom command, counter, and each one that applies is carried
\* out for the same message: a token that is the currency name, a custom
\* command and a counter at once gets three replies in that order and one
\* increment of the counter.  A lookup that fails ends the command there.
C15_Fallback ==
    [][(pc = "handling" /\ pc' = "done" /\ FallbackToken(cur.m)) =>
          LET key == <<ResponseTarget(cur.m), DropFirst(cur.m.text, 1)>> IN
          IF last'.cmd = "ok"
          THEN /\ last'.out = FallbackReplies(cur.m)
               /\ IF CounterApplies(cur.m)
                  THEN /\ last'.calls = <<"counters.increment " \o key[2]>>
                       /\ counters'[key].count = counters[key].count + 1
                  ELSE last'.calls = <<>> /\ counters' = counters
          ELSE /\ IsPrefix(last'.out, FallbackReplies(cur.m))
               /\ last'.out # FallbackReplies(cur.m)]_vars

\* !coins on Full is the currency, a custom command and a counter: the viewer
\* has got the balance, the command and the count, in that order
C15_Witness ==
    /\ pc = "done"
    /\ last.m.text = "!coins"
    /\ last.m.nick = "viewer"
    /\ last.cmd = "ok"
    /\ last.out = <<[target |-> Full, text |-> "viewer -> You have 0 coins."],
                    [target |-> Full, text |-> "viewer counts coins"],
                    [target |-> Full, text |-> "asked 1 times"]>>
    /\ last.calls = <<"counters.increment coins">>
    /\ counters[<<Full, "coins">>].count = 1

\* the feature that the arm of a built-in asks for
OwningFlag(word) ==
    CASE word = "!song" -> "Song"
      [] word = "!command" -> "Command"
      [] word = "!afterstream" -> "AfterStream"
      [] word = "!badword" -> "BadWords"
      [] OTHER -> "Admin"

\* the replies of handle_counter to nick
CounterReplies(nick) ==
    {nick \o " -> " \o t :
       t \in {"No custom counters.", "Edited command.", "Expected name.",
              "No such command.", "Expected: list, edit, or delete."}}
    \cup {"Do you think this is a democracy " \o nick \o "? LUL"}

\* the dispatch r of a message of nick shows handle_counter at work: its first
\* reply is one of the handler's, or the store of counters has been called
CounterHandled(r, nick, target) ==
    \/ /\ r.out # <<>>
       /\ r.out[1].target = target
       /\ \/ r.out[1].text \in CounterReplies(nick)
          \/ HasPrefix(r.out[1].text, nick \o " -> Custom counters: ")
          \/ HasPrefix(r.out[1].text, nick \o " -> Deleted command '")
    \/ /\ r.calls # <<>>
       /\ r.calls[1] \in {"counters.edit", "counters.delete"}

\* the built-ins that give neither a reply nor a call nor a log line when
\* their handler runs
SilentTexts == {"!song mine", "!badword edit"}

\* a known sender names the built-in word as the command of the message
Names(m, words) ==
    /\ m.kind = "PRIVMSG"
    /\ m.nick # None
    /\ CommandWords(m) # <<>>
    /\ CommandWords(m)[1] \in words

\* all that the dispatch r has sent is the filter's: warnings and directives
Moderation(r) ==
    \A i \in 1..Len(r.out) :
        IsDeleteDirective(r.out[i]) \/ IsWarning(r.out[i], r.m)

\* C16: the counter command is handled on every channel, whatever the
\* features of the channel, while song, command, afterstream, badword, uptime,
\* title and game reach their handler only on a channel that has Song,
\* Command, AfterStream, BadWords, Admin, Admin and Admin: without the flag
\* the command does nothing at all (the filter of the channel alone acts on
\* the message).
C16_CounterUngated ==
    [][(pc = "handling" /\ pc' = "done") =>
          /\ Names(cur.m, {"!counter"}) =>
                CounterHandled(last', cur.m.nick, ResponseTarget(cur.m))
          /\ Names(cur.m, GatedCommands) =>
                IF OwningFlag(CommandWords(cur.m)[1])
                      \in FeaturesOf(ResponseTarget(cur.m))
                THEN cur.m.text \notin SilentTexts =>
                        \/ last'.out # <<>>
                        \/ last'.calls # <<>>
                        \/ last'.logs # <<>>
                ELSE /\ last'.cmd = "ok"
                     /\ last'.calls = <<>>
                     /\ UNCHANGED storeVars
                     /\ IF last'.flagged THEN Moderation(last')
                        ELSE last'.out = <<>> /\ last'.logs = <<>>]_vars

\* the moderator has edited a counter on a channel that has no feature, and
\* a viewer's !command list on the same channel has done nothing
C16_Witness ==
    /\ pc = "done"
    /\ last.m.to = Bare
    /\ FeaturesOf(Bare) = {}
    /\ last.m.text = "!command list"
    /\ last.out = <<>>
    /\ <<Bare, "deaths">> \in DOMAIN counters

\* the feature that owns the collaborator a call goes to; "none" for the
\* notifier, which no feature owns
CallOwner(call) ==
    CASE HasPrefix(call, "player.") \/ HasPrefix(call, "spawn add_track")
             -> "Song"
      [] HasPrefix(call, "commands.") -> "Command"
      [] HasPrefix(call, "counters.") -> "Counter"
      [] HasPrefix(call, "db.insert_afterstream") -> "AfterStream"
      [] HasPrefix(call, "bad_words.") -> "BadWords"
      [] HasPrefix(call, "spawn update_channel") -> "Admin"
      [] OTHER -> "none"

\* a reply of the dispatch r lists the counters of the channel
ListsCounters(r) ==
    \E i \in 1..Len(r.out) :
        \/ r.out[i].text = r.m.nick \o " -> No custom counters."
        \/ HasPrefix(r.out[i].text, r.m.nick \o " -> Custom counters: ")

\* C17: a dispatch reads or changes the state of a feature (the player, the
\* custom commands, the counters, the reminders, the bad-word filter, the URL
\* whitelist, the stream information) for a channel only when the features
\* of that channel hold the flag that owns it.
C17_FeatureGate ==
    [][(pc = "handling" /\ pc' = "done" /\ cur.m.kind = "PRIVMSG"
        /\ cur.m.nick # None) =>
          LET feats == FeaturesOf(ResponseTarget(cur.m)) IN
          /\ \A i \in 1..Len(last'.calls) :
                 CallOwner(last'.calls[i]) \in feats \cup {"none"}
          /\ "Song" \notin feats => volume' = volume /\ queue' = queue
          /\ "Command" \notin feats => commands' = commands
          /\ "Counter" \notin feats =>
                 counters' = counters /\ ~ListsCounters(last')
          /\ "BadWords" \notin feats => bad_words' = bad_words
          /\ last'.flagged =>
                 "BadWords" \in feats \/ "UrlWhitelist" \in feats]_vars

\* a dispatch has flagged a message that bears an identifier
FlaggedWithId ==
    /\ pc = "done"
    /\ last.m.kind = "PRIVMSG"
    /\ last.flagged
    /\ MessageId(last.m.tags) # None

\* the delete directives of the last dispatch
Directives == {i \in 1..Len(last.out) : IsDeleteDirective(last.out[i])}

\* C18: a flagged message that bears an identifier gets exactly one delete
\* directive, /delete and the identifier, and the directive is addressed to
\* the reply target of the message, in a channel and in a direct message
\* alike.
C18_DeleteTarget ==
    FlaggedWithId =>
        /\ Cardinality(Directives) = 1
        /\ \A i \in Directives :
               /\ last.out[i].text = "/delete " \o MessageId(last.m.tags)
               /\ last.out[i].target = ResponseTarget(last.m)

\* the same for the messages sent to a channel
C18_InChannels == IsChannelName(last.m.to) => C18_DeleteTarget

\* no tag of the sequence is an id with a value
NoIdValue(tags) ==
    \A i \in 1..Len(tags) : ~(tags[i][1] = "id" /\ tags[i][2] # None)

\* a line of the log of the last dispatch
Logged(line) == \E i \in 1..Len(last.logs) : last.logs[i] = line

\* C19: a flagged message without an id tag that has a value (no tags at all,
\* or an id tag without a value) gets no delete directive, and the handler
\* returns success: the consumer has no error to log.
C19_NoIdNoDelete ==
    (pc = "done" /\ last.m.kind = "PRIVMSG" /\ last.flagged
     /\ NoIdValue(last.m.tags)) =>
        /\ Directives = {}
        /\ last.result = "ok"
        /\ ~Logged("failed to process message")

\* a bad word has been flagged in a message whose id tag has no value, and
\* the warning alone has been sent
C19_Witness ==
    /\ pc = "done"
    /\ last.m.text = "darn it"
    /\ last.m.tags = ValuelessId
    /\ last.flagged
    /\ Len(last.out) = 1
    /\ IsWarning(last.out[1], last.m)
    /\ last.result = "ok"

\* the same without any tag
C19_Untagged ==
    /\ pc = "done"
    /\ last.m.text = "x marks"
    /\ last.m.tags = NoTags
    /\ last.flagged
    /\ last.out = <<>>

\* a unit ends in this step: its message has been handed to the transport
WriteStep == ready' = ready - 1

\* C20: a message whose write fails is logged and dropped.  Each unit that
\* ends has either written its message or lost it, once; a lost message goes
\* back to no queue, the token its unit took stays taken, nothing of the
\* callers' state changes, every loss has its line in the log, and the units
\* that come after acquire and write as before.
C20_FailedWriteDropped ==
    /\ [](send_errors = lost)
    /\ [][WriteStep =>
            /\ written' + lost' = written + lost + 1
            /\ written' >= written /\ lost' >= lost
            /\ queued' = queued
            /\ holder' = holder
            /\ tokens' = tokens
            /\ UNCHANGED <<streamVars, storeVars>>]_vars
    /\ [][~WriteStep => lost' = lost /\ written' = written]_vars
    /\ [](ready > 0 => ENABLED UnitWrite(TRUE))
    /\ []((queued > 0 /\ holder = 0) => ENABLED UnitAcquire)

\* two units took a token each; one write failed and was logged, the other
\* message was written, and neither token has come back
C20_Witness ==
    /\ lost = 1
    /\ send_errors = 1
    /\ written = 1
    /\ queued = 0 /\ holder = 0 /\ ready = 0
    /\ clock = 0
    /\ tokens = Capacity - 2

\* the reward loop runs a tick in this step
RewardStep == reward_ticks' = reward_ticks + 1

\* the balance of a participant, 0 without a record
Balance(bal, n) == IF n \in DOMAIN bal THEN bal[n] ELSE 0

\* C21: a tick of the reward loop that fetches an empty set of participants
\* changes no balance and announces nothing; a tick that fails otherwise does
\* the same; a tick that succeeds has added the reward to the balance of
\* every participant fetched (viewers, moderators, broadcaster) and to no
\* other, and it announces once, after the update, exactly when the channel
\* has notify_rewards.
C21_RewardTick ==
    [][RewardStep =>
          LET u == tick'.users IN
          /\ u = {} => tick'.failed
          /\ IF tick'.failed
             THEN /\ balances' = balances
                  /\ queued' = queued
                  /\ tick'.logs # <<>>
             ELSE /\ DOMAIN balances' = DOMAIN balances \cup u
                  /\ \A n \in u : balances'[n] = Balance(balances, n) + Reward
                  /\ \A n \in DOMAIN balances \ u : balances'[n] = balances[n]
                  /\ queued' = queued + (IF notify_rewards THEN 1 ELSE 0)]_vars

\* a tick has rewarded the viewer, the moderator and the broadcaster and has
\* announced it
C21_Witness ==
    /\ tick.loop = "reward"
    /\ ~tick.failed
    /\ tick.users = {"viewer", "mod", "streamer"}
    /\ notify_rewards
    /\ tick.sends = 1
    /\ reward_ticks = 1
    /\ balances = ("viewer" :> 10) @@ ("mod" :> 40) @@ ("streamer" :> 10)
    /\ queued = CapRequests + 1

\* a tick has fetched nobody: skipped and logged
C21_Skipped ==
    /\ tick.loop = "reward"
    /\ tick.logs = <<"failed to reward users: no chatters to reward">>
    /\ reward_ticks = 1
    /\ balances = ("mod" :> 30)
    /\ queued = CapRequests

\* C22: the StreamInfo cell of a channel is written by the status-refresh
\* loop of that channel and by nothing else: a step that changes the cell of
\* ch is a successful tick of the loop of ch; no dispatch, a moderator's
\* update of title or game included, no completion of such an update and no
\* tick of another channel's loop changes it; a tick writes its cell in one
\* step, the write lock held from the first to the last of it.
C22_SingleWriter ==
    [][/\ DOMAIN stream_info' = InfoChannels
       /\ \A ch \in InfoChannels :
              stream_info'[ch] # stream_info[ch] =>
                  /\ info_ticks' = info_ticks + 1
                  /\ tick'.loop = "info " \o ch
                  /\ ~tick'.failed
                  /\ \A other \in InfoChannels \ {ch} :
                         stream_info'[other] = stream_info[other]
       /\ (pc' # pc \/ updates' # updates) =>
              stream_info' = stream_info]_vars

\* the moderator's update of the title of Full has succeeded, and the cell of
\* Full holds what its loop has fetched, the cell of the other channel
\* nothing
C22_Witness ==
    /\ task.ok
    /\ task.u.kind = "title"
    /\ task.u.target = Full
    /\ info_ticks = 1
    /\ stream_info[Full] = <<"My stream", "Chess", "t0">>
    /\ stream_info[AdminChan] = Absent

\* a moderator asks for a new title or game on a channel that has Admin
UpdateRequest(m) ==
    /\ m.kind = "PRIVMSG"
    /\ m.nick \in Moderators
    /\ "Admin" \in FeaturesOf(ResponseTarget(m))
    /\ Len(WordList(m.text)) >= 2
    /\ WordList(m.text)[1] \in {"!title", "!game"}

\* C23: the update of title or game that a moderator asks for is spawned as a
\* task of its own and the dispatch ends without waiting for it; when the
\* task ends the sender gets one reply that tells the outcome, the platform
\* having accepted the update or refused it.
C23_UpdateReported ==
    [][/\ (pc = "handling" /\ pc' = "done" /\ UpdateRequest(cur.m)) =>
              /\ Len(updates') = Len(updates) + 1
              /\ updates'[Len(updates')].name = cur.m.nick
              /\ updates'[Len(updates')].target = ResponseTarget(cur.m)
              /\ last'.cmd = "ok"
              /\ last'.out = <<>>
       /\ Len(updates') < Len(updates) =>
              /\ Len(task'.out) = 1
              /\ queued' = queued + 1
              /\ task'.out[1].target = task'.u.target
              /\ HasPrefix(task'.out[1].text, task'.u.name \o " -> ")
              /\ task'.ok =>
                     task'.out[1].text
                         = task'.u.name \o " -> "
                           \o (IF task'.u.kind = "title" THEN "Title updated!"
                               ELSE "Game updated!")]_vars

\* the same for the updates that the platform accepts
C23_SuccessReported ==
    [][(Len(updates') < Len(updates) /\ task'.ok) =>
          /\ queued' = queued + 1
          /\ task'.out = <<[target |-> task'.u.target,
                            text |-> task'.u.name \o " -> "
                                     \o (IF task'.u.kind = "title"
                                         THEN "Title updated!"
                                         ELSE "Game updated!")]>>]_vars

\* commands that lack an argument or give one of the wrong kind
BadInputTexts ==
    {"!command edit", "!command delete", "!counter edit", "!counter delete",
     "!badword edit", "!badword delete", "!song promote", "!song promote x",
     "!song promote 0", "!song volume abc", "!song volume -",
     "!song volume 4294967296", "!song delete", "!song request"}

\* those of them whose branch ends on a bare error
UnansweredTexts == {"!badword edit", "!badword delete", "!song promote"}

\* a known sender makes an error in a command on the channel that has every
\* feature: an argument is missing or wrong, or the sender lacks the
\* permission that the command asks for
InputError(m, texts) ==
    /\ m.kind = "PRIVMSG"
    /\ m.nick # None
    /\ m.to = Full
    /\ \/ m.nick \in Moderators /\ m.text \in texts
       \/ GatedRequest(m)
       \/ m.nick \notin Moderators /\ m.text \in UnansweredTexts

\* the messages of the dispatch r that are not the filter's
RepliesOf(r) ==
    {i \in 1..Len(r.out) :
        ~IsDeleteDirective(r.out[i]) /\ ~IsWarning(r.out[i], r.m)}

\* the dispatch r has answered the error of m: one reply, to the sender,
\* nothing called, and the handler has returned Ok
Answered(r, m) ==
    /\ Cardinality(RepliesOf(r)) = 1
    /\ \A i \in RepliesOf(r) :
           /\ r.out[i].target = ResponseTarget(m)
           /\ \/ HasPrefix(r.out[i].text, m.nick \o " -> ")
              \/ r.out[i].text = "Do you think this is a democracy " \o m.nick
                                 \o "? LUL"
    /\ r.calls = <<>>
    /\ r.result = "ok"

\* C24: an error in what the user has typed (an argument missing, too many or
\* of the wrong kind, a permission missing) gets exactly one scripted reply
\* to that user and ends that command alone, !badword edit and !badword
\* delete without a word and !song promote without an index included.
C24_InputErrorAnswered ==
    [][(pc = "handling" /\ pc' = "done" /\ InputError(cur.m, BadInputTexts)) =>
          Answered(last', cur.m) /\ UNCHANGED storeVars]_vars

\* the same without the three commands whose branch ends on a bare error
C24_Others ==
    [][(pc = "handling" /\ pc' = "done" /\ cur.m.text \notin UnansweredTexts
        /\ InputError(cur.m, BadInputTexts)) =>
          Answered(last', cur.m) /\ UNCHANGED storeVars]_vars

\* the errors of the collaborators of a command
CollaboratorErrors ==
    {"balance error", "store error", "render error", "player error",
     "notifier error"}

\* the command of the dispatch r has met a failure of a collaborator
CollaboratorFailed(r) ==
    /\ r.m.kind = "PRIVMSG"
    /\ r.m.nick # None
    /\ r.cmd = "err"
    /\ \E e \in CollaboratorErrors, i \in 1..Len(r.logs) :
           r.logs[i] = "failed to process command: " \o e

\* C25: a failure of a collaborator met by a command (the balance lookup, a
\* store of commands, counters or bad words, the renderer, the player, the
\* notifier) is logged, is answered with an apology to the user, and goes no
\* further than the command: the handler returns Ok.
C25_FailureApology ==
    (pc = "done" /\ CollaboratorFailed(last)) =>
        /\ last.result = "ok"
        /\ \E i \in RepliesOf(last) :
               /\ last.out[i].target = ResponseTarget(last.m)
               /\ i = Len(last.out) \/ IsDeleteDirective(last.out[Len(last.out)])

\* the same without the apology: logged, and no further than the command;
\* what the command has changed before the failure stays
C25_FailureContained ==
    (pc = "done" /\ CollaboratorFailed(last)) =>
        /\ last.result = "ok"
        /\ ~Logged("failed to process message")

\* ------------------------------------------------------------------------
\* C26
\* ------------------------------------------------------------------------

\* the connection of the transport has terminated: its stream has ended or
\* its send_future has ended
TransportTerminated ==
    FutureStatus("stream") # "running" \/ FutureStatus("send") # "running"

\* C26: the joined future of run ends only when the connection of the
\* transport terminates (no end or failure of a loop, of the player's future
\* or of the bridge ends it), and it does end when the connection terminates
C26_DriverLifetime ==
    /\ Driver # "running" => TransportTerminated
    /\ TransportTerminated => Driver # "running"

\* C26, the part that holds: a future that completes does not end the
\* driver while another one runs, and the loops never end
C26_CompletionKept ==
    /\ reward_alive /\ info_alive
    /\ Driver # "running" => \E f \in Futures : FutureStatus(f) = "failed"

\* C26: the player's future has failed while the connection is up
C26_PlayerFailed ==
    /\ tasks.player = "failed"
    /\ ~TransportTerminated
    /\ Driver = "failed"

\* C26: the stream of the transport has ended and the driver still runs
C26_StreamEnded ==
    /\ tasks.stream = "done"
    /\ Driver = "running"

\* ------------------------------------------------------------------------
\* C27
\* ------------------------------------------------------------------------

\* the announcement that the claim expects for the i-th event
Announces(i) ==
    LET ev == events[i].e
        a == announced[i]
    IN /\ a.target = events[i].channel
       /\ ev.kind = "Pausing" => a.text = "Pausing playback."
       /\ ev.kind = "Empty" =>
              a.text = "Song queue is empty (use !song request <spotify-id> to add more)."
       /\ (ev.kind = "Playing" /\ ev.user = None) =>
              a.text = "Now playing: " \o ev.what \o "."
       /\ (ev.kind = "Playing" /\ ev.user # None) =>
              a.text = "Now playing: " \o ev.what \o ", requested by "
                           \o ev.user \o "."

\* C27: every event of the player of a channel with Song and a configured
\* player becomes exactly one announcement to that channel, in the order of
\* the events, each handed to the sender as one message; a channel without
\* Song or without a configured player has no bridge and gets no announcement
C27_BridgeAnnounces ==
    /\ Len(announced) = Len(events)
    /\ \A i \in 1..Len(events) : Announces(i)
    /\ queued + holder + ready + written = CapRequests + Len(events)
    /\ \A i \in 1..Len(announced) :
           /\ "Song" \in ChannelFeatures[announced[i].target]
           /\ announced[i].target \in PlayerConfigs

\* C27: a Playing event, a Pausing event and an Empty event have been
\* announced in this order, and the announcements have been written
C27_Witness ==
    /\ Len(events) = 3
    /\ events[1].e.kind = "Playing" /\ events[1].e.user # None
    /\ events[2].e.kind = "Pausing"
    /\ events[3].e.kind = "Empty"
    /\ announced[1].text = "Now playing: songA, requested by viewer."
    /\ announced[3].target = Full
    /\ written = CapRequests + 3

\* ------------------------------------------------------------------------
\* C28
\* ------------------------------------------------------------------------

\* the text that the claim has the command taken from: the substitute when
\* the channel is configured and its aliases have one for the first word,
\* else the original
EffectiveText(m) ==
    LET ws == WordList(m.text)
        target == ResponseTarget(m)
    IN IF /\ target \in DOMAIN ChannelFeatures
          /\ target = Full
          /\ ws # <<>>
          /\ ws[1] \in DOMAIN Aliases
       THEN Aliases[ws[1]]
       ELSE m.text

\* the dispatch of m has done what the dispatch of the same message with
\* text t does: the same command result, messages, calls and stores
DispatchedAs(m, t) ==
    LET h == Handle([m EXCEPT !.text = t], AllOk) IN
    /\ last'.cmd = h.cmd
    /\ last'.out = h.c.out
    /\ last'.calls = h.c.calls
    /\ volume' = h.c.vol
    /\ queue' = h.c.queue

\* C28: the alias is looked up on the words of the original text before the
\* prefix is tested: with a substitute the command and its arguments are
\* those of the substitute (an alias without prefix runs its command, an
\* alias with prefix whose substitute has none runs nothing), without one,
\* or on a channel that is not configured, those of the original
C28_AliasBeforePrefix ==
    [][(pc = "handling" /\ pc' = "done" /\ cur.m.kind = "PRIVMSG") =>
          /\ DispatchedAs(cur.m, EffectiveText(cur.m))
          /\ (cur.m.to = Full /\ cur.m.text \in {"turnup", "turnup now"}) =>
                 last'.cmd # "none"
          /\ (cur.m.to = Full /\ cur.m.text = "!shh") => last'.cmd = "none"
          /\ (cur.m.to # Full /\ cur.m.text = "turnup") => last'.cmd = "none"
          /\ (cur.m.to # Full /\ cur.m.text = "!louder") =>
                 last'.cmd # "none" /\ volume' = volume]_vars

\* C28: a moderator's alias without prefix has raised the volume
C28_Witness ==
    /\ pc = "done"
    /\ last.m.text = "turnup" /\ last.m.nick = "mod" /\ last.m.to = Full
    /\ last.cmd = "ok"
    /\ volume = 60

\* C28: an alias with the prefix whose substitute has none has run nothing
C28_NoCommand ==
    /\ pc = "done"
    /\ last.m.text = "!shh" /\ last.m.to = Full
    /\ last.cmd = "none"
    /\ last.out = <<>>

\* ------------------------------------------------------------------------
\* C29
\* ------------------------------------------------------------------------

\* the writes made since the period began and the seconds elapsed since
WritesInPeriod == written - period.written
TokensMadeInPeriod == (Frequency * (clock - period.clock)) \div 1000

\* C29: every write (each message that Sender::send is given: replies,
\* warnings, delete directives, announcements and CAP requests) first takes a
\* token from the one bucket under its mutex; the bucket holds between 0 and
\* capacity tokens; and the writes of any period are no more than capacity
\* plus the refill rate times the seconds elapsed
C29_RateLimited ==
    /\ tokens \in 0..Capacity
    /\ holder \in {0, 1}
    /\ period # NoPeriod => WritesInPeriod <= Capacity + TokensMadeInPeriod

\* C29, the parts that hold: the bucket stays within 0..capacity, at most
\* one unit is inside the limiter, and the writes made and the tokens held
\* by units that have not yet written are no more than the tokens the
\* bucket has given out since the start
C29_TokenBeforeWrite ==
    /\ tokens \in 0..Capacity
    /\ holder \in {0, 1}
    /\ written + lost + ready <= Capacity + (Frequency * clock) \div 1000 - tokens

\* C29, the step: a unit gets ready to write only by taking a token from
\* the bucket or the token just made while it waited, and a write is made
\* only by a unit that is ready
C29_TakeThenWrite ==
    [][/\ ready' > ready =>
             /\ ready' = ready + 1
             /\ \/ tokens > 0 /\ tokens' = tokens - 1 /\ holder = 0
                \/ holder = 1 /\ holder' = 0 /\ clock' > clock
                      /\ tokens' = tokens
       /\ written' > written =>
             written' = written + 1 /\ ready > 0 /\ ready' = ready - 1]_vars

\* C29: a period that began while a unit held its token: 96 writes with no
\* time elapsed
C29_Burst ==
    /\ period # NoPeriod
    /\ clock = period.clock
    /\ WritesInPeriod = Capacity + 1

\* ------------------------------------------------------------------------
\* C30
\* ------------------------------------------------------------------------

\* the step is a tick of the refresh loop of ch
InfoTickOf(ch) == info_ticks' # info_ticks /\ tick'.loop = "info " \o ch

\* C30: the cell of a channel is absent at the start and stays absent until
\* a tick of its loop succeeds; a tick in which a fetch fails (the stream's or
\* the channel's) leaves every cell as it was, so that a present value never
\* becomes absent again and the last good value is kept; and absent is not
\* the same as present without a start time: !title answers "not live" for
\* the first and the title for the second
C30_AbsentUntilRefreshed ==
    /\ \A ch \in InfoChannels : stream_info[ch] = Absent
    /\ [][/\ \A ch \in InfoChannels :
               /\ stream_info[ch] # Absent => stream_info'[ch] # Absent
               /\ (InfoTickOf(ch) /\ tick'.failed) => stream_info' = stream_info
               /\ stream_info'[ch] # stream_info[ch] =>
                      InfoTickOf(ch) /\ ~tick'.failed
          /\ (/\ pc = "handling" /\ pc' = "done"
              /\ cur.m.text = "!title" /\ cur.m.to = Full) =>
                 /\ Len(last'.out) = 1
                 /\ last'.out[1].text =
                        IF stream_info[Full] = Absent
                        THEN cur.m.nick
                               \o " -> Stream is not live right now, try again later!"
                        ELSE cur.m.nick \o " -> " \o stream_info[Full][1]]_vars

\* C30: a refresh of channel Full has failed and its cell holds a value
\* without a start time, which !title has answered with the title
C30_Witness ==
    /\ tick.loop = "info " \o Full /\ tick.failed
    /\ stream_info[Full] = <<"My stream", None, None>>
    /\ stream_info[AdminChan] = Absent
    /\ pc = "done" /\ last.m.text = "!title"
    /\ last.out[1].text = "viewer -> My stream"

\* C30: !title has been answered while the cell of Full was absent
C30_AbsentAnswered ==
    /\ stream_info[Full] = Absent
    /\ pc = "done" /\ last.m.text = "!title"
    /\ last.out[1].text = "viewer -> Stream is not live right now, try again later!"

\* ------------------------------------------------------------------------
\* C31
\* ------------------------------------------------------------------------

\* the bytes p are the first bytes of b
StartsWithBytes(b, p) == Len(p) <= Len(b) /\ SubSeq(b, 1, Len(p)) = p

\* the prefix that connections_by_user scans from: the bytes of
\* ConnectionsByUserId without the last
ScanPrefix(user_id) ==
    LET b == KeySerialize(ConnectionsByUserId(user_id)) IN
    SubSeq(b, 1, Len(b) - 1)

\* C31: a key of each of the five variants is the key its bytes
\* deserialize to, and the bytes of Connection{user_id, id} begin with the
\* bytes of ConnectionsByUserId{user_id} without their last byte
C31_KeyRoundTrip ==
    /\ codec.read => codec.back.ok /\ codec.back.key = codec.key
    /\ (codec.key.variant = "Connection") =>
           /\ codec.bytes = KeySerialize(codec.key)
           /\ StartsWithBytes(codec.bytes, ScanPrefix(codec.key.user_id))
           /\ Len(ScanPrefix(codec.key.user_id)) >= 1

\* C31: the connection of the source's test, user "100292" and id "twitch",
\* has been serialized and read back
C31_Witness ==
    /\ codec.key = Connection(<<49, 48, 48, 50, 57, 50>>,
                              <<116, 119, 105, 116, 99, 104>>)
    /\ codec.read
    /\ codec.back.ok
    /\ codec.back.key = codec.key
    /\ codec.bytes[1] = 159 /\ codec.bytes[Len(codec.bytes)] = 255

\* ------------------------------------------------------------------------
\* C32
\* ------------------------------------------------------------------------

\* C32: no order is kept among the writes: a unit that holds its token can
\* write whatever the units spawned before it have done, and a queued unit
\* can take the mutex, when it is free, whatever its place in the order of
\* the sends
C32_NoOrderKept ==
    \A i \in DOMAIN units :
        /\ units[i] = "ready" => ENABLED UnitWriteOf(i)
        /\ (units[i] = "queued" /\ holder = 0) => ENABLED UnitAcquireOf(i)

\* C32: a message sent later has been written and one sent before it has
\* not, or has been written after it
C32_Witness ==
    /\ Len(wire) >= 2
    /\ \E a, b \in DOMAIN wire : a < b /\ wire[a] > wire[b]
    /\ wire[1] > CapRequests

\* ------------------------------------------------------------------------
\* C33
\* ------------------------------------------------------------------------

\* the dispatch in hand reads the cell of its channel
ReadsCell(m) ==
    /\ m.kind = "PRIVMSG"
    /\ m.text \in {"!uptime", "!title", "!game"}
    /\ m.to \in InfoChannels

\* C33: with the lock of a cell poisoned, a read of the cell by uptime, title
\* or game panics: no reply, and the consumer does not go on; the refresh of
\* that cell fails as any tick fails: the failure is logged, nothing is
\* written, and the loop goes on.  A cell whose lock is sound is read and
\* answered, and written.
C33_PoisonedLock ==
    [][/\ (pc = "handling" /\ pc' = "done" /\ ReadsCell(cur.m)) =>
             IF poisoned /\ cur.m.to = Full
             THEN /\ last'.result = "panic"
                  /\ last'.out = <<>> /\ queued' = queued
             ELSE /\ last'.result = "ok"
                  /\ Len(last'.out) = 1
       /\ (pc = "done" /\ last.result = "panic") => pc' \in {"done", "closed"}
       /\ pc = "closed" => pc' = "closed"
       /\ (info_ticks' # info_ticks /\ poisoned /\ tick'.loop = "info " \o Full) =>
             /\ tick'.failed
             /\ tick'.logs # <<>>
             /\ stream_info' = stream_info
             /\ info_alive'
       /\ (info_ticks' # info_ticks /\ tick'.loop = "info " \o AdminChan
              /\ fetches'.info = fetches.info + 1 /\ ~tick'.failed) =>
             stream_info'[AdminChan] # Absent]_vars

\* C33: the refresh of the poisoned cell has failed twice, the cell is still
\* absent, and a reader of it has panicked
C33_Witness ==
    /\ poisoned
    /\ info_ticks >= 2 /\ tick.failed /\ tick.loop = "info " \o Full
    /\ stream_info[Full] = Absent
    /\ pc = "done" /\ last.result = "panic" /\ last.m.text = "!uptime"

\* ------------------------------------------------------------------------
\* C34
\* ------------------------------------------------------------------------

\* the step takes an event from the reader of the Remote
TakesEvent ==
    /\ bus'.step \in {"skip", "push", "push failed"}
    /\ remote.rx # NoReader /\ remote'.rx # NoReader
    /\ Len(remote'.rx) < Len(remote.rx)

\* the Remote is the one that init builds from the builder
RemoteBuilt ==
    /\ (~remote_builder.enabled) =>
           (remote.rx = NoReader /\ remote.client = None /\ remote.setbac = None)
    /\ remote_builder.enabled =>
           (/\ remote.rx # NoReader
            /\ remote.client = remote_builder.player
            /\ remote.setbac = remote_builder.api_url)
    /\ remote_builder.api_url # "not a url"

\* a step of the loop pushes only for a SongModified event with remote
\* enabled, a player and a valid API URL, pushes for every such event, and
\* after a failed push the loop still runs
PushStep ==
    /\ (bus'.pushed > bus.pushed) =>
           (/\ TakesEvent
            /\ Head(remote.rx) = "SongModified"
            /\ remote_builder.enabled
            /\ remote_builder.player # None
            /\ remote_builder.api_url = "https://setbac.tv")
    /\ (/\ TakesEvent
        /\ Head(remote.rx) = "SongModified"
        /\ remote_builder.player # None
        /\ remote_builder.api_url # None) =>
           (bus'.pushed = bus.pushed + 1)
    /\ (bus'.errors > bus.errors) =>
           (bus'.step = "push failed" /\ bus'.errors = bus.errors + 1)
    /\ bus.running => bus'.running

\* C34: once the loop runs, the Remote is the one built from the builder
\* after every update: with enabled false its reader, its player client and
\* its API client are absent; an update is pushed only for a SongModified
\* event, with remote enabled, a player and a valid API URL, and is pushed
\* for every such event; a push that fails is logged and the loop goes on
C34_RemoteRebuilt ==
    /\ [](bus.running => RemoteBuilt)
    /\ [][PushStep]_vars

\* C34: a push has failed and a later one has been made
C34_Witness ==
    /\ bus.errors = 1
    /\ bus.pushed = 2
    /\ bus.step = "push"
    /\ remote_builder.enabled

\* C34: remote has been disabled while a player and an API URL are set
C34_Disabled ==
    /\ bus.running /\ bus.step = "enabled"
    /\ ~remote_builder.enabled
    /\ remote_builder.player # None /\ remote_builder.api_url # None
    /\ remote = NoRemote
    /\ bus.pushed >= 1

\* ------------------------------------------------------------------------
\* C35
\* ------------------------------------------------------------------------

\* the third word of the command in hand, and the position it spells
SongArgument == WordsNext(WordsNext(WordsNext(WordsNew(cur.m.text)).it).it).word
SongVerb == WordsNext(WordsNext(WordsNew(cur.m.text)).it).word
SpelledPosition == ("0" :> 0) @@ ("1" :> 1) @@ ("2" :> 2) @@ ("3" :> 3)

\* the queue without its item at position i (from 1)
Without(q, i) == [j \in 1..(Len(q) - 1) |-> IF j < i THEN q[j] ELSE q[j + 1]]

\* the command in hand is handled and the player has not failed
SongDone ==
    /\ pc = "handling" /\ pc' = "done"
    /\ SongVerb \in {"delete", "promote"}
    /\ "failed to process command: player error"
          \notin {last'.logs[i] : i \in 1..Len(last'.logs)}

\* C35: delete <n> and promote <n> need a moderator; position 0 and a word
\* that is no number are rejected with one reply and change nothing; a
\* position n >= 1 acts on the item at index n - 1 of the queue; delete mine
\* needs no moderator and removes the last track of the sender and no other
C35_Positions ==
    [][SongDone =>
         IF SongArgument = "mine"
         THEN /\ last'.cmd = "ok" /\ Len(last'.out) = 1
              /\ LET mine == {i \in 1..Len(queue) : queue[i].user = cur.m.nick}
                 IN  IF mine = {} THEN queue' = queue
                     ELSE /\ queue' = Without(queue, CHOOSE i \in mine :
                                                  \A j \in mine : j <= i)
                          /\ \A i \in 1..Len(queue) :
                                queue[i].user # cur.m.nick =>
                                  \E j \in 1..Len(queue') : queue'[j] = queue[i]
         ELSE IF cur.m.nick \notin Moderators
         THEN /\ queue' = queue /\ last'.cmd = "err"
              /\ last'.out = <<[target |-> Full,
                                text |-> Refusal([name |-> cur.m.nick])]>>
         ELSE IF SongArgument \notin DOMAIN SpelledPosition
         THEN /\ queue' = queue /\ last'.cmd = "err"
              /\ last'.out = <<[target |-> Full,
                                text |-> cur.m.nick
                                         \o " -> Expected whole number argument"]>>
         ELSE IF SpelledPosition[SongArgument] = 0
         THEN /\ queue' = queue /\ last'.cmd = "err"
              /\ last'.out = <<[target |-> Full,
                                text |-> cur.m.nick
                                         \o " -> Can't remove the current song :("]>>
         ELSE LET n == SpelledPosition[SongArgument] IN
              /\ last'.cmd = "ok" /\ Len(last'.out) = 1
              /\ IF n - 1 >= Len(queue) THEN queue' = queue
                 ELSE IF SongVerb = "delete" THEN queue' = Without(queue, n)
                 ELSE queue' = <<queue[n]>> \o Without(queue, n)]_vars

\* C35: a moderator has deleted position 2 and position 1 is still queued
C35_Witness ==
    /\ pc = "done"
    /\ last.m.text = "!song delete 2" /\ last.m.nick = "mod"
    /\ last.cmd = "ok"
    /\ queue = <<[what |-> "songA", user |-> "viewer"]>>

\* C35: a viewer has removed their own track with delete mine
C35_Mine ==
    /\ pc = "done"
    /\ last.m.text = "!song delete mine" /\ last.m.nick = "viewer"
    /\ queue = <<[what |-> "songB", user |-> "mod"]>>

\* C35: a moderator has promoted position 2
C35_Promoted ==
    /\ pc = "done"
    /\ last.m.text = "!song promote 2" /\ last.m.nick = "mod"
    /\ queue = <<[what |-> "songB", user |-> "mod"],
                 [what |-> "songA", user |-> "viewer"]>>

\* C35: position 0 from a moderator has been rejected
C35_Zero ==
    /\ pc = "done"
    /\ last.m.text = "!song delete 0" /\ last.m.nick = "mod"
    /\ last.cmd = "err" /\ Len(last.out) = 1

\* ------------------------------------------------------------------------
\* C36
\* ------------------------------------------------------------------------

\* what the dispatch in hand has done is the routing of the command, if the
\* message is one, followed by the moderation check of the message as it
\* would be made on its own, under the outcomes fx
CommandThenCheck(fx) ==
    LET m == cur.m
        feats == FeaturesOf(ResponseTarget(m))
        first == WordsNext(WordsNew(m.text))
        isCommand == first.word # None /\ StartsWith(first.word, "!")
        routed == ProcessCommand(Ctx0, feats, DropFirst(first.word, 1), m,
                                 first.it, fx)
        check == ShouldBeDeleted(Ctx0, feats, m, m.text, fx)
        verdict == IF check.flagged THEN DeleteMessage(check.c, m.to, m)
                   ELSE check.c
    IN
    /\ last'.cmd = (IF ~isCommand THEN "none"
                    ELSE IF routed.ok THEN "ok" ELSE "err")
    /\ last'.flagged = check.flagged
    /\ last'.out = (IF isCommand THEN routed.c.out ELSE <<>>) \o verdict.out
    /\ last'.calls = (IF isCommand THEN routed.c.calls ELSE <<>>)
    /\ (isCommand /\ ~routed.ok) =>
          last'.logs = <<"failed to process command: " \o routed.e>>
                       \o verdict.logs
    /\ last'.result = "ok"

\* C36: for every PRIVMSG the command is routed first and the moderation
\* check follows: the replies of the command come before the warning and
\* the delete directive, a flagged message has its command run all the
\* same, and a command that fails leaves the check as it is
C36_CommandThenModeration ==
    [][(pc = "handling" /\ pc' = "done" /\ cur.m.kind = "PRIVMSG"
        /\ cur.m.text \notin DOMAIN Aliases)
          => \E fx \in Outcomes : CommandThenCheck(fx)]_vars

\* C36: a viewer's command has been answered and the message deleted
C36_Witness ==
    /\ pc = "done"
    /\ last.m.text = "!ping darn" /\ last.m.nick = "viewer"
    /\ last.m.to = Full
    /\ last.cmd = "ok" /\ last.flagged
    /\ Len(last.out) = 3
    /\ last.out[1].text = "viewer -> What do you want?"
    /\ last.out[3].text = "/delete id1"

\* C36: a viewer's command has failed and the message was deleted
C36_Failed ==
    /\ pc = "done"
    /\ last.m.text = "!song volume x" /\ last.m.nick = "viewer"
    /\ last.m.to = Full
    /\ last.cmd = "err" /\ last.flagged
    /\ last.out[Len(last.out)].text = "/delete id1"

\* ------------------------------------------------------------------------
\* C37
\* ------------------------------------------------------------------------

\* the flag that gates each reserved name
Gate ==
    ("song" :> "Song") @@ ("command" :> "Command")
    @@ ("afterstream" :> "AfterStream") @@ ("badword" :> "BadWords")
    @@ ("uptime" :> "Admin") @@ ("title" :> "Admin") @@ ("game" :> "Admin")

\* the name the message in hand gives after its '!'
NameInHand == DropFirst(WordsNext(WordsNew(cur.m.text)).word, 1)

\* the dispatch in hand has done what the fallback lookup does, under fx
FallbackServed(fx) ==
    LET r == Fallback(Ctx0, FeaturesOf(cur.m.to), AsUser(cur.m), NameInHand,
                      fx)
    IN  /\ last'.out = r.c.out
        /\ last'.calls = r.c.calls
        /\ last'.cmd = (IF r.ok THEN "ok" ELSE "err")
        /\ counters' = r.c.ctrs

\* the dispatch in hand has consulted no lookup of the fallback: nothing the
\* lookups would enqueue under fx is among its messages, and no counter is
\* incremented; and the built-in has done something
BuiltInRan(fx) ==
    LET r == Fallback(Ctx0, FeaturesOf(cur.m.to), AsUser(cur.m), NameInHand,
                      fx)
    IN  /\ \A i \in 1..Len(r.c.out), j \in 1..Len(last'.out) :
              r.c.out[i] # last'.out[j]
        /\ \A j \in 1..Len(last'.calls) :
              ~HasPrefix(last'.calls[j], "counters.increment")
        /\ \A k \in DOMAIN counters : k \in DOMAIN counters' =>
              counters'[k].count = counters[k].count
        /\ last'.out # <<>> \/ last'.calls # <<>> \/ last'.logs # <<>>

\* C37: a reserved name on a channel that lacks its flag goes to the
\* fallback lookup, which serves the currency, the custom command and the
\* counter of that name; with the flag, and always for ping and counter,
\* the built-in runs and the fallback is not consulted
C37_ReservedNames ==
    [][(pc = "handling" /\ pc' = "done" /\ cur.m.kind = "PRIVMSG"
        /\ NameInHand \in DOMAIN Gate \cup {"ping", "counter"})
          => IF NameInHand \in DOMAIN Gate
                /\ Gate[NameInHand] \notin FeaturesOf(cur.m.to)
             THEN \E fx \in Outcomes : FallbackServed(fx)
             ELSE \A fx \in Outcomes : BuiltInRan(fx)]_vars

\* C37: on a channel without Song the custom command named song answers
C37_Witness ==
    /\ pc = "done"
    /\ last.m.text = "!song current" /\ last.m.to = CustomChan
    /\ last.cmd = "ok"
    /\ last.out = <<[target |-> CustomChan, text |-> "custom song"]>>

\* C37: on a channel without Admin the counter named title counts
C37_Counter ==
    /\ pc = "done"
    /\ last.m.text = "!title" /\ last.m.to = CustomChan
    /\ last.out = <<[target |-> CustomChan, text |-> "1 titles"]>>

\* C37: on a channel without Admin the currency named uptime is served
C37_Currency ==
    /\ pc = "done"
    /\ last.m.text = "!uptime" /\ last.m.to = CustomChan
    /\ last.out = <<[target |-> CustomChan,
                     text |-> "viewer -> You have 0 uptime."]>>

\* C37: with the flag the built-in answers although a custom command has
\* the name
C37_BuiltIn ==
    /\ pc = "done"
    /\ last.m.text = "!song current" /\ last.m.to = Full
    /\ <<Full, "song">> \in DOMAIN commands
    /\ Len(last.out) = 1
    /\ last.out[1].text # "custom song"

\* C37: ping answers as the built-in although a custom command has the name
C37_Ping ==
    /\ pc = "done"
    /\ last.m.text = "!ping" /\ last.m.to = CustomChan
    /\ <<CustomChan, "ping">> \in DOMAIN commands
    /\ last.out = <<[target |-> CustomChan,
                     text |-> "viewer -> What do you want?"]>>

\* ------------------------------------------------------------------------
\* C38
\* ------------------------------------------------------------------------

\* a message of a sender who is no moderator has been handled on a channel
\* that has both filters
BothFiltersDone ==
    /\ pc = "done"
    /\ last.m.kind = "PRIVMSG"
    /\ last.m.nick = "viewer"
    /\ {"BadWords", "UrlWhitelist"} \subseteq FeaturesOf(last.m.to)

\* the words of the text that the filter holds, and the hosts of its links
\* that the whitelist does not hold
WordsHeld(text) ==
    {w \in {TrimmedWords(text)[i] : i \in 1..Len(TrimmedWords(text))} :
        w \in DOMAIN bad_words}
HostsRefused(text) ==
    {h \in {HostStr(WordList(WordsNew(text))[i]) :
              i \in 1..Len(WordList(WordsNew(text)))} :
        h # None /\ h \notin WhitelistedHosts}

\* C38: on a channel with both filters a message without a bad word is
\* flagged exactly when one of its links has a host outside the whitelist;
\* a message with a bad word is flagged whatever its links
C38_BothFilters ==
    BothFiltersDone =>
        IF WordsHeld(last.m.text) = {}
        THEN last.flagged = (HostsRefused(last.m.text) # {})
        ELSE last.flagged

\* C38: a message without a bad word was flagged for its link
C38_Witness ==
    /\ BothFiltersDone
    /\ last.m.to = BothChan
    /\ last.m.text = "check http://evil.com/x"
    /\ last.flagged
    /\ last.out = <<[target |-> BothChan, text |-> "/delete id1"]>>

\* C38: a message without a bad word and with a whitelisted link was kept
C38_Kept ==
    /\ BothFiltersDone
    /\ last.m.to = BothChan
    /\ last.m.text = "check http://example.com/x"
    /\ ~last.flagged

\* ------------------------------------------------------------------------
\* C39
\* ------------------------------------------------------------------------

\* a moderator's `!song volume <arg>` with a whole number is handled
VolumeInHand ==
    /\ pc = "handling" /\ pc' = "done"
    /\ cur.m.kind = "PRIVMSG" /\ cur.m.nick = "mod" /\ cur.m.to = Full
    /\ HasPrefix(cur.m.text, "!song volume ")
    /\ VolumeArgument(volume, DropFirst(cur.m.text, 13)) # None

\* C39: the confirmation "Volume set to N." is enqueued whether the player's
\* volume call succeeds or fails; when the call fails the volume stays as it
\* was, nothing else is sent and the failure is logged
C39_ConfirmedBeforeCall ==
    [][VolumeInHand =>
         LET n == U32Val(VolumeArgument(volume, DropFirst(cur.m.text, 13)))
         IN  /\ last'.out = <<[target |-> Full,
                               text |-> "mod -> Volume set to " \o DecStr(n)
                                        \o "."]>>
             /\ last'.calls = <<"player.volume " \o DecStr(n)>>
             /\ last'.cmd \in {"ok", "err"}
             /\ (last'.cmd = "ok") => (volume' = n /\ last'.logs = <<>>)
             /\ (last'.cmd = "err") =>
                   (/\ volume' = volume
                    /\ last'.logs =
                         <<"failed to process command: player error">>)]_vars

\* C39: the call has failed after the confirmation was enqueued
C39_Witness ==
    /\ pc = "done"
    /\ last.m.text = "!song volume 30" /\ last.m.nick = "mod"
    /\ last.cmd = "err"
    /\ last.out = <<[target |-> Full, text |-> "mod -> Volume set to 30."]>>
    /\ volume = 50

\* ------------------------------------------------------------------------
\* C40
\* ------------------------------------------------------------------------

\* the user that the key maps to and the key that the user maps to
UserOfKey(key) == DbGet(tree, KeyToUserId(key))
KeyOfUser(user_id) == DbGet(tree, UserIdToKey(user_id))

\* C40: whenever no call is in progress the two maps are inverse to one
\* another, at most one key resolves to each user, and a key that has been
\* replaced or deleted does not resolve through get_user_by_key
C40_KeysInverse ==
    (procs.pending = <<>>) =>
        /\ \A u \in WebUsers, k \in ApiKeys :
              (UserOfKey(k) = Some(u)) <=> (KeyOfUser(u) = Some(k))
        /\ \A u \in WebUsers :
              Cardinality({k \in ApiKeys : UserOfKey(k) = Some(u)}) <= 1
        /\ \A k \in procs.revoked : ~GetUserByKey(tree, k).some

\* C40: a key that insert_key has replaced still resolves to its user
C40_ReplacedResolves ==
    /\ procs.pending = <<>>
    /\ procs.step = "insert_key"
    /\ \E u \in WebUsers, k \in procs.revoked :
          /\ GetUserByKey(tree, k) = Some(u)
          /\ KeyOfUser(u).some /\ KeyOfUser(u).value # k

\* C40: after calls that did not overlap a user has a key that maps to
\* another user
C40_NotInverse ==
    /\ procs.pending = <<>>
    /\ \E u \in WebUsers, k \in ApiKeys :
          KeyOfUser(u) = Some(k) /\ UserOfKey(k).some /\ UserOfKey(k) # Some(u)

\* C40: a delete_key that read the key before an insert_key replaced it has
\* left the new key resolving to a user who has no key
C40_Raced ==
    /\ procs.pending = <<>>
    /\ procs.step = "delete_key commit"
    /\ \E u \in WebUsers, k \in ApiKeys :
          GetUserByKey(tree, k) = Some(u) /\ ~KeyOfUser(u).some

\* C40: each call leaves what it has written: after insert_key the user
\* maps to the key and the key to the user, after the transaction of
\* delete_key the user has no key and the key that was read maps to no one
C40_CallsWrite ==
    [][/\ \A u \in WebUsers, k \in ApiKeys :
            (procs'.step = "insert_key" /\ procs'.calls > procs.calls
             /\ tree' = Commit(tree, InsertKeyOps(tree, u, k)))
              => (/\ DbGet(tree', UserIdToKey(u)) = Some(k)
                  /\ DbGet(tree', KeyToUserId(k)) = Some(u))
       /\ \A i \in 1..Len(procs.pending) :
            (procs'.step = "delete_key commit"
             /\ procs'.pending = RemoveAt(procs.pending, i)
             /\ Len(procs.pending) = 1)
              => (/\ ~DbGet(tree', UserIdToKey(procs.pending[i].user_id)).some
                  /\ ~DbGet(tree', KeyToUserId(procs.pending[i].key)).some)
      ]_vars

====
